---- MODULE Spec2Model ----
(***************************************************************************)
(* SEC 10-K / 10-Q ingestion and parse pipeline of investment-analysis:    *)
(* the filing selector (app/services/sec_ingestion.py), the ingestion      *)
(* orchestrator with its artifact and parse-job upserts, and the parse     *)
(* worker (app/worker/tasks.py), over the uniqueness constraints declared  *)
(* in app/models.py.                                                       *)
(***************************************************************************)
EXTENDS Integers, Sequences, FiniteSets, TLC

VARIABLES
    submissions,         \* the filer's filing index as the registry serves it
    lookback_10k,        \* SecIngestionConfig.lookback_10k   (N)
    lookback_10q,        \* SecIngestionConfig.lookback_10q   (M)
    include_amendments,  \* SecIngestionConfig.include_amendments
    sec_parse_max_attempts, \* SecIngestionConfig.parse_max_attempts
    selected,            \* what the select_filings call returned
    reselected,          \* what a second call on the same index returned
    selPc,               \* "idle", "called" (once), "twice"
    parser_version,      \* SEC_PARSER_VERSION as load_config() reads it now
    documents,           \* registry: content hash of each filing's primary document
    sec_artifacts,       \* table sec_artifacts; a row's id is its position
    sec_parse_jobs,      \* table sec_parse_jobs; a row's id is its position
    ing,                 \* the ingest runs (ingest_sec_filings_for_ticker)
    wk,                  \* the parse workers (sec_parse_filing_task)
    ingest_runs,         \* ingest runs started so far
    parse_tasks,         \* parse tasks that loaded a job to claim so far
    last_run,            \* history: the last ingest run that completed
    last_reg,            \* history: the last register_raw_artifact call that returned
    company_tickers,     \* registry: the rows of company_tickers.json
    instruments,         \* table instruments: canonical_symbol and cik
    http,                \* one _request_json or _request_bytes call of the client
    ex_text,             \* the normalized text of a parsed artifact, in tokens
    ex_raw_facts,        \* what extract_fundamentals_from_text returned
    ex_facts,            \* what _select_best_facts returned
    exPc,                \* "idle", "text", "extracted", "selected"
    parsed_texts,        \* what each PARSED_TEXT artifact's text extracts to
    rules,               \* what _load_alert_rules returns
    sec_fundamentals_snapshot, \* table; a row's id is its position
    sec_fundamentals_fact,     \* table; a row's id is its position
    sec_fundamentals_change,   \* table; a row's id is its position
    sec_fundamentals_alert,    \* table; a row's id is its position
    px,                  \* the extraction tasks (process_parsed_sec_artifact)
    extract_tasks,       \* extraction tasks started so far
    recomputes,          \* direct calls of compute_changes_and_alerts so far
    last_cmp,            \* history: the last compute_changes_and_alerts that returned
    nz_raw,              \* the raw text _normalize_html_to_text is given
    nz_text,             \* what it returned
    nzPc                 \* "idle", "raw", "normalized"

selVars == <<submissions, lookback_10k, lookback_10q, include_amendments,
             sec_parse_max_attempts,
             selected, reselected, selPc>>

cfgVars == <<lookback_10k, lookback_10q, include_amendments,
             sec_parse_max_attempts>>

pipeVars == <<parser_version, documents, sec_artifacts, sec_parse_jobs, ing, wk,
              ingest_runs, parse_tasks, last_run, last_reg>>

regVars == <<company_tickers, instruments>>

httpVars == <<http>>

factVars == <<ex_text, ex_raw_facts, ex_facts, exPc>>

fundVars == <<parsed_texts, rules, sec_fundamentals_snapshot,
              sec_fundamentals_fact, sec_fundamentals_change,
              sec_fundamentals_alert, px, extract_tasks, recomputes,
              last_cmp>>

normVars == <<nz_raw, nz_text, nzPc>>

auxVars == <<httpVars, normVars, factVars, fundVars>>

vars == <<selVars, pipeVars, regVars, auxVars>>

-----------------------------------------------------------------------------
(* Bounds and value sets.                                                  *)

\* Longest filing index the selector is checked on.
MaxLen == 3

\* Lookback values (SEC_10K_LOOKBACK, SEC_10Q_LOOKBACK) the selector is checked on.
Lookbacks == {0, 1, 2}

\* Form types of the index: the two base forms, their amendment variants,
\* and one unrelated form.
Forms == {"10-K", "10-Q", "10-K/A", "10-Q/A", "8-K"}

\* filingDate strings: two ISO dates and one that date.fromisoformat rejects.
IsoDates == {"2023-01-31", "2024-01-31"}
DateStrings == IsoDates \cup {"15/12/2025"}

\* Accession numbers, as their rank in Python's string order.
Accessions == {1, 2}

\* Python's None, for an Optional[date].
None == 0

\* One position of the index's parallel arrays (form, filingDate,
\* accessionNumber). Two filings of 2023-01-31 differ in their accession
\* number; the other dates come with the first accession number only, and
\* the malformed date with the two base forms only.
IndexRows ==
    {r \in [form : Forms, filingDate : DateStrings, accessionNumber : Accessions] :
        /\ r.accessionNumber = 2 =>
              r.filingDate = "2023-01-31" /\ r.form \in {"10-K", "10-Q", "10-K/A"}
        /\ r.filingDate \notin IsoDates => r.form \in {"10-K", "10-Q"}}

SeqsUpTo(S, n) == UNION {[1..k -> S] : k \in 0..n}

-----------------------------------------------------------------------------
(* select_filings and its helpers.                                         *)

\* date.fromisoformat on the ISO strings of the model, as yyyymmdd: the
\* order of these numbers is the order of the dates.
fromisoformat(s) ==
    CASE s = "2023-01-31" -> 20230131
      [] s = "2024-01-31" -> 20240131

_parse_date_safe(s) ==
    IF s = "" THEN None
    ELSE IF s \in IsoDates THEN fromisoformat(s)
    ELSE None

\* (form or "").upper().strip(). The registry serves upper-case forms; the
\* lower-case spellings are folded the way str.upper does.
upper_strip(form) ==
    CASE form = "10-k" -> "10-K"
      [] form = "10-q" -> "10-Q"
      [] form = "10-k/a" -> "10-K/A"
      [] form = "10-q/a" -> "10-Q/A"
      [] OTHER -> form

_eligible_form_any(form, inc) ==
    upper_strip(form) \in {"10-K", "10-Q", "10-K/A", "10-Q/A"}

_eligible_form(form, inc) ==
    LET f == upper_strip(form) IN
    IF f \in {"10-K", "10-Q"} THEN TRUE
    ELSE IF inc /\ f \in {"10-K/A", "10-Q/A"} THEN TRUE
    ELSE FALSE

\* str.startswith on the upper-cased, stripped form.
startswith_10K(form) == upper_strip(form) \in {"10-K", "10-K/A"}
startswith_10Q(form) == upper_strip(form) \in {"10-Q", "10-Q/A"}

\* The rows the first loop keeps: eligible form and a parsable filing date.
RECURSIVE candidate_rows(_, _)
candidate_rows(subs, inc) ==
    IF subs = <<>> THEN <<>>
    ELSE LET h == Head(subs)
             d == _parse_date_safe(h.filingDate)
             rest == candidate_rows(Tail(subs), inc)
         IN IF ~_eligible_form(h.form, inc) THEN rest
            ELSE IF d = None THEN rest
            ELSE <<[form |-> h.form, filing_date |-> d,
                    accession_number |-> h.accessionNumber]>> \o rest

\* Python compares the key tuples (filing_date, accession_number).
key_lt(a, b) ==
    \/ a.filing_date < b.filing_date
    \/ a.filing_date = b.filing_date /\ a.accession_number < b.accession_number

\* list.sort(key=..., reverse=True): descending and stable, so a row goes
\* behind every row already placed whose key is not smaller.
RECURSIVE insert_desc(_, _)
insert_desc(sorted, r) ==
    IF sorted = <<>> THEN <<r>>
    ELSE IF key_lt(Head(sorted), r) THEN <<r>> \o sorted
    ELSE <<Head(sorted)>> \o insert_desc(Tail(sorted), r)

RECURSIVE sort_desc_from(_, _)
sort_desc_from(acc, rows) ==
    IF rows = <<>> THEN acc
    ELSE sort_desc_from(insert_desc(acc, Head(rows)), Tail(rows))

sort_desc(rows) == sort_desc_from(<<>>, rows)

no_final_sort(rows) == rows

\* combined.sort(...) at the end of select_filings.
final_sort(rows) == sort_desc(rows)

bucket_has_room_off_by_one(bucket, lookback) == Len(bucket) <= lookback

\* len(ks) < lookback_10k, len(qs) < lookback_10q.
bucket_has_room(bucket, lookback) == Len(bucket) < lookback

\* The second loop: fill the 10-K and the 10-Q bucket in sorted order.
RECURSIVE fill_buckets(_, _, _, _, _)
fill_buckets(rows, ks, qs, n10k, n10q) ==
    IF rows = <<>> THEN [ks |-> ks, qs |-> qs]
    ELSE LET r == Head(rows) IN
         IF startswith_10K(r.form)
         THEN fill_buckets(Tail(rows),
                           IF bucket_has_room(ks, n10k) THEN Append(ks, r) ELSE ks,
                           qs, n10k, n10q)
         ELSE IF startswith_10Q(r.form)
         THEN fill_buckets(Tail(rows), ks,
                           IF bucket_has_room(qs, n10q) THEN Append(qs, r) ELSE qs,
                           n10k, n10q)
         ELSE fill_buckets(Tail(rows), ks, qs, n10k, n10q)

select_filings(subs, n10k, n10q, inc) ==
    LET rows == sort_desc(candidate_rows(subs, inc))
        b == fill_buckets(rows, <<>>, <<>>, n10k, n10q)
    IN final_sort(b.ks \o b.qs)

-----------------------------------------------------------------------------
(* The durable store and the registry, for one ticker and its filer.       *)

Runners == {"r1", "r2"}
Workers == {"w1", "w2"}

\* The ticker ingested and the CIK the registry resolves it to.
Ticker == "AAPL"
Cik == "0000320193"

ParserVersions == {"v0", "v1"}
Hashes == {"h1", "h2"}

\* Ingest runs started, and parse tasks that go on to claim a job, in one
\* behaviour.
MaxIngestRuns == 2
MaxParseTasks == 2

\* SEC_PARSE_MAX_ATTEMPTS, SEC_10K_LOOKBACK and SEC_10Q_LOOKBACK defaults.
parse_max_attempts == 3
default_lookback_10k == 2
default_lookback_10q == 8

\* The filing the index of the pipeline holds.
FilingA == [form |-> "10-K", filingDate |-> "2024-01-31", accessionNumber |-> 1]

\* _artifact_storage_path: base path / cik / accession number / primary
\* document. The base path is fixed and the primary document is the
\* filing's, so the path is one per (cik, accession number).
_artifact_storage_path(cik, accession_number) == <<"sec_filings", cik, accession_number>>

\* The sibling .txt file the worker writes beside the raw file.
parsed_path(storage_path) == <<"txt", storage_path>>

Ids(table) == 1..Len(table)

ux_raw_artifacts_only(rows, cik, accession_number, artifact_kind) ==
    artifact_kind = "RAW_FILING" =>
        ~\E a \in Ids(rows) :
            /\ rows[a].cik = cik
            /\ rows[a].accession_number = accession_number
            /\ rows[a].artifact_kind = artifact_kind

ux_parsed_artifacts_only(rows, cik, accession_number, artifact_kind) ==
    artifact_kind = "PARSED_TEXT" =>
        ~\E a \in Ids(rows) :
            /\ rows[a].cik = cik
            /\ rows[a].accession_number = accession_number
            /\ rows[a].artifact_kind = artifact_kind

\* UniqueConstraint("cik", "accession_number", "artifact_kind"): whether the
\* table accepts a new row with these values.
ux_sec_artifacts_filing_kind(rows, cik, accession_number, artifact_kind) ==
    ~\E a \in Ids(rows) :
        /\ rows[a].cik = cik
        /\ rows[a].accession_number = accession_number
        /\ rows[a].artifact_kind = artifact_kind

idempotency_key_not_unique(jobs, key) == TRUE

\* SecParseJob.idempotency_key, unique=True: whether the table accepts a new
\* job with this key.
idempotency_key_unique(jobs, key) ==
    ~\E j \in Ids(jobs) : jobs[j].idempotency_key = key

\* .filter(cik, accession_number, artifact_kind == RAW_FILING).first():
\* the id found, 0 for None.
find_raw(rows, cik, accession_number) ==
    LET hits == {a \in Ids(rows) :
                    /\ rows[a].cik = cik
                    /\ rows[a].accession_number = accession_number
                    /\ rows[a].artifact_kind = "RAW_FILING"}
    IN IF hits = {} THEN 0 ELSE CHOOSE a \in hits : \A b \in hits : a <= b

find_job_wrong_key(jobs, key) == 0

\* .filter(idempotency_key == idem_key).first(): the id found, 0 for None.
find_job(jobs, key) ==
    LET hits == {j \in Ids(jobs) : jobs[j].idempotency_key = key}
    IN IF hits = {} THEN 0 ELSE CHOOSE j \in hits : \A k \in hits : j <= k

find_parsed_none(rows, parent, version) == 0

find_parsed_the_parent(rows, parent, version) == parent

\* .filter(parent_artifact_id, PARSED_TEXT, parser_version).first().
find_parsed(rows, parent, version) ==
    LET hits == {a \in Ids(rows) :
                    /\ rows[a].parent_artifact_id = parent
                    /\ rows[a].artifact_kind = "PARSED_TEXT"
                    /\ rows[a].parser_version = version}
    IN IF hits = {} THEN 0 ELSE CHOOSE a \in hits : \A b \in hits : a <= b

\* f"parse:{artifact.id}:{parser_version}"
idem_key(artifact_id, version) == <<"parse", artifact_id, version>>

raw_artifact(cik, accession_number, content_hash) ==
    [artifact_kind |-> "RAW_FILING",
     cik |-> cik,
     accession_number |-> accession_number,
     storage_path |-> _artifact_storage_path(cik, accession_number),
     content_hash |-> content_hash,
     parent_artifact_id |-> 0,
     parser_version |-> "none"]

parsed_artifact(rows, artifact_id, version) ==
    [artifact_kind |-> "PARSED_TEXT",
     cik |-> rows[artifact_id].cik,
     accession_number |-> rows[artifact_id].accession_number,
     storage_path |-> parsed_path(rows[artifact_id].storage_path),
     content_hash |-> "none",
     parent_artifact_id |-> artifact_id,
     parser_version |-> version]

new_parse_job(artifact_id, version) ==
    [artifact_id |-> artifact_id,
     status |-> "QUEUED",
     attempt_count |-> 0,
     max_attempts |-> sec_parse_max_attempts,
     locked_by |-> "none",
     locked_at |-> FALSE,
     idempotency_key |-> idem_key(artifact_id, version),
     last_error |-> "none"]

-----------------------------------------------------------------------------
(* History kept for the statements about repeated runs and calls.          *)

NoRun == [valid |-> FALSE, artifact_ids |-> <<>>, parser_version |-> "none",
          solo |-> FALSE]
NoReg == [valid |-> FALSE, accession_number |-> 0, content_hash |-> "none",
          id |-> 0, created |-> FALSE, updated |-> FALSE, repeat |-> FALSE,
          before |-> 0]

IdleIng ==
    [pc |-> "idle", parser_version |-> "none", selected |-> <<>>, i |-> 0,
     content_hash |-> "none", art |-> 0, is_new |-> FALSE,
     artifact_ids |-> <<>>, parse_job_ids |-> <<>>,
     created_raw_count |-> 0, created_parse_job_count |-> 0,
     base |-> NoRun, solo |-> FALSE, clean |-> FALSE,
     stopped |-> FALSE, resumes |-> FALSE, changed |-> FALSE]

\* The slot of a run that stopped before its return.
StoppedIng == [IdleIng EXCEPT !.stopped = TRUE]

IdleWk ==
    [pc |-> "idle", parse_job_id |-> 0, attempt_count |-> 0,
     parser_version |-> "none", error |-> "none"]

Active(r) == ing[r].pc \notin {"idle", "ret"}

\* The registry changed what it serves: no earlier run saw what a run
\* sees from now on.
RegistryChanged(runs) ==
    [r \in Runners |->
        IF runs[r].pc \in {"idle", "ret"} THEN runs[r]
        ELSE [runs[r] EXCEPT !.base = NoRun, !.clean = FALSE]]

-----------------------------------------------------------------------------
(* The registry's ticker index, the instruments table and the resolution   *)
(* of a ticker to its CIK.                                                  *)

\* What company_tickers.json can hold for the ticker: no row, a row with
\* its CIK number, a row whose cik_str is empty.
TickerIndexes ==
    {{}, {[ticker |-> Ticker, cik_str |-> "320193"]},
     {[ticker |-> Ticker, cik_str |-> ""]}}

\* The instruments table before any resolution: no row for the ticker, or
\* a row another feature created, without a CIK.
InstrumentTables == {{}, {[canonical_symbol |-> Ticker, cik |-> "none"]}}

\* cik_str.zfill(10) on the CIK number of the model.
zfill(cik_str) == CASE cik_str = "320193" -> "0000320193"

resolve_cik_invents(index, ticker) == Cik

\* SecEdgarClient.resolve_cik: the padded CIK of the first row of the index
\* with this ticker and a cik_str, "none" (None) when there is no such row.
resolve_cik(index, ticker) ==
    LET hits == {row \in index : row.ticker = ticker /\ row.cik_str # ""}
    IN IF ticker = "" \/ hits = {} THEN "none"
       ELSE zfill((CHOOSE row \in hits : TRUE).cik_str)

\* Instrument.cik of the ticker's row, "none" without a row or without a CIK.
cached_cik(rows, sym) ==
    LET hits == {inst \in rows : inst.canonical_symbol = sym}
    IN IF hits = {} THEN "none" ELSE (CHOOSE inst \in hits : TRUE).cik

\* resolve_cik_for_ticker: the cached CIK if the instrument has one, else
\* the registry's answer; "none" stands for the SecEdgarError it raises.
resolve_cik_for_ticker(rows, index, sym) ==
    IF cached_cik(rows, sym) # "none" THEN cached_cik(rows, sym)
    ELSE resolve_cik(index, sym)

\* _ensure_instrument_with_cik: the row is created when missing, and its
\* cik set when it differs.
_ensure_instrument_with_cik(rows, sym, cik) ==
    {inst \in rows : inst.canonical_symbol # sym}
        \cup {[canonical_symbol |-> sym, cik |-> cik]}

\* The instruments table after a resolve_cik_for_ticker that returned.
instruments_after_resolve(rows, index, sym) ==
    IF cached_cik(rows, sym) # "none" THEN rows
    ELSE _ensure_instrument_with_cik(rows, sym, resolve_cik(index, sym))

-----------------------------------------------------------------------------
(* SecEdgarClient._request_json and _request_bytes: one GET with retries.  *)

\* SEC_RETRY_MAX_ATTEMPTS as the deployment sets it; 3 is the default.
retry_max_default == 3
RetryMaxes == 1..retry_max_default

RequestKinds == {"json", "bytes"}

\* What one requests.get can come to: a response with its status code and
\* a body that is JSON or not, or a RequestException (status 0).
Responses ==
    [status : {200}, fault : {"none", "badjson"}]
        \cup [status : {204, 404, 403, 429, 500, 501, 503}, fault : {"none"}]
        \cup [status : {0}, fault : {"network"}]

\* resp.status_code in (429, 403, 500, 502, 503, 504)
retried_statuses == {429, 403, 500, 502, 503, 504}

\* One pass of the loop body: "retry" when last_err is set and the loop
\* goes on, "raise" for the SecEdgarError of an unexpected status, "return"
\* for a 200. resp.json() raises ValueError on a body that is not JSON,
\* which _request_json catches; _request_bytes does not decode the body.
request_outcome(kind, resp) ==
    IF resp.fault = "network" THEN "retry"
    ELSE IF resp.status \in retried_statuses THEN "retry"
    ELSE IF resp.status # 200 THEN "raise"
    ELSE IF kind = "json" /\ resp.fault = "badjson" THEN "retry"
    ELSE "return"

IdleHttp == [pc |-> "idle", kind |-> "none", retry_max |-> 0, attempt |-> 0,
             responses |-> <<>>]

\* The call starts: attempt 1 of range(1, retry_max + 1).
RequestStart(kind, n) ==
    /\ http.pc = "idle"
    /\ http' = [pc |-> "send", kind |-> kind, retry_max |-> n, attempt |-> 1,
                responses |-> <<>>]
    /\ UNCHANGED <<selVars, pipeVars, regVars, normVars, factVars, fundVars>>

\* requests.get comes back for the current attempt.
RequestGets(resp) ==
    /\ http.pc = "send"
    /\ LET outcome == request_outcome(http.kind, resp)
           seen == Append(http.responses, resp)
       IN http' =
            IF outcome = "return"
            THEN [http EXCEPT !.pc = "returned", !.responses = seen]
            ELSE IF outcome = "raise"
            THEN [http EXCEPT !.pc = "raised", !.responses = seen]
            ELSE IF http.attempt < http.retry_max
            THEN [http EXCEPT !.attempt = http.attempt + 1, !.responses = seen]
            ELSE [http EXCEPT !.pc = "raised", !.responses = seen]
    /\ UNCHANGED <<selVars, pipeVars, regVars, normVars, factVars, fundVars>>

-----------------------------------------------------------------------------
(* extract_fundamentals_from_text and _select_best_facts. A text is a      *)
(* sequence of tokens, the words and numerals that white space separates;  *)
(* a float is a decimal mantissa and exponent, m * 10^e.                   *)

\* Longest text, in tokens, and longest list of extracted facts.
MaxTokens == 5
MaxFacts == 3

\* The numerals of the texts, character by character.
Numerals == {"1.2", "3", "1.2.3"}

chars(numeral) ==
    CASE numeral = "1.2" -> <<"1", ".", "2">>
      [] numeral = "3" -> <<"3">>
      [] numeral = "1.2.3" -> <<"1", ".", "2", ".", "3">>

ScaleWords == {"thousand", "million", "billion"}

\* The tokens of the texts: the two heads of the net_income pattern, words
\* that follow a head, the dollar sign, numerals, scale words and a phrase
\* that tells the period.
Tokens ==
    {"net income", "net loss", "was", "of", "$", "quarter ended"}
        \cup Numerals \cup ScaleWords

\* Optional[float]: None, or the float m * 10^e.
NoneValue == [null |-> TRUE, m |-> 0, e |-> 0]
Float(m, e) == [null |-> FALSE, m |-> m, e |-> e]

digit(c) ==
    CASE c = "0" -> 0 [] c = "1" -> 1 [] c = "2" -> 2 [] c = "3" -> 3

RECURSIVE without_commas(_)
\* value.replace(",", "")
without_commas(cs) ==
    IF cs = <<>> THEN <<>>
    ELSE IF Head(cs) = "," THEN without_commas(Tail(cs))
    ELSE <<Head(cs)>> \o without_commas(Tail(cs))

RECURSIVE digits_value(_)
\* The integer the digits of cs spell, the dots left out.
digits_value(cs) ==
    IF cs = <<>> THEN 0
    ELSE IF cs[Len(cs)] = "." THEN digits_value(SubSeq(cs, 1, Len(cs) - 1))
    ELSE 10 * digits_value(SubSeq(cs, 1, Len(cs) - 1)) + digit(cs[Len(cs)])

\* float(cleaned): ValueError (None) on a second decimal point.
_parse_numeric(cs) ==
    LET cleaned == without_commas(cs)
        dots == {i \in 1..Len(cleaned) : cleaned[i] = "."}
    IN IF cleaned = <<>> \/ Cardinality(dots) > 1 THEN NoneValue
       ELSE IF dots = {} THEN Float(digits_value(cleaned), 0)
       ELSE Float(digits_value(cleaned),
                  (CHOOSE i \in dots : TRUE) - Len(cleaned))

\* scale_map, as powers of ten: 1_000.0, 1_000_000.0, 1_000_000_000.0.
scale_map(scale_word) ==
    CASE scale_word = "thousand" -> 3
      [] scale_word = "million" -> 6
      [] scale_word = "billion" -> 9

\* value * scale_map[scale_word]; "" is the optional group that did not
\* match.
_apply_scale(value, scale_word) ==
    IF value.null THEN NoneValue
    ELSE IF scale_word = "" THEN value
    ELSE Float(value.m, value.e + scale_map(scale_word))

Abs(n) == IF n < 0 THEN -n ELSE n

\* "loss" in head, and -abs(value).
is_loss(head) == head = "net loss"
minus_abs(value) == Float(-Abs(value.m), value.e)

\* _detect_period on the window around a match: the texts are shorter
\* than the window, so the window is the text.
_detect_period(window) ==
    IF \E i \in 1..Len(window) : window[i] = "quarter ended" THEN "quarter"
    ELSE "none"

\* The net_income entry of _METRIC_PATTERNS:
\* (net\s+income|net\s+loss)\s*(?:were|was|:)?\s*\$?\s*([0-9][0-9,\.]*)
\* \s*(million|billion|thousand)?
_METRIC_PATTERNS ==
    <<[metric_key |-> "net_income", unit |-> "USD",
       heads |-> {"net income", "net loss"}, links |-> {"were", "was", ":"}]>>

tok(text, i) == IF i \in 1..Len(text) THEN text[i] ELSE ""

\* The pattern tried at token i: group 1 at i, the optional link word, the
\* optional dollar sign, group 2, and the optional group 3.
match_at(pattern, text, i) ==
    LET j1 == IF tok(text, i + 1) \in pattern.links THEN i + 2 ELSE i + 1
        j2 == IF tok(text, j1) = "$" THEN j1 + 1 ELSE j1
        scaled == tok(text, j2 + 1) \in ScaleWords
    IN [ok |-> tok(text, i) \in pattern.heads /\ tok(text, j2) \in Numerals,
        start |-> i,
        end |-> IF scaled THEN j2 + 1 ELSE j2,
        head |-> tok(text, i),
        raw_value |-> tok(text, j2),
        scale_word |-> IF scaled THEN tok(text, j2 + 1) ELSE ""]

\* The ExtractedFact of one match.
fact_of(pattern, text, match) ==
    LET parsed == _parse_numeric(chars(match.raw_value))
        scaled == _apply_scale(parsed, match.scale_word)
    IN [metric_key |-> pattern.metric_key,
        value_num |-> IF ~scaled.null /\ is_loss(match.head)
                      THEN minus_abs(scaled) ELSE scaled,
        value_raw |-> SubSeq(text, match.start, match.end),
        unit |-> pattern.unit,
        period |-> _detect_period(text)]

RECURSIVE finditer(_, _, _)
\* re.finditer: the matches from token i on, left to right, none
\* overlapping another.
finditer(pattern, text, i) ==
    IF i > Len(text) THEN <<>>
    ELSE LET match == match_at(pattern, text, i)
         IN IF match.ok
            THEN <<fact_of(pattern, text, match)>>
                     \o finditer(pattern, text, match.end + 1)
            ELSE finditer(pattern, text, i + 1)

RECURSIVE facts_of_patterns(_, _)
facts_of_patterns(patterns, text) ==
    IF patterns = <<>> THEN <<>>
    ELSE finditer(Head(patterns), text, 1)
             \o facts_of_patterns(Tail(patterns), text)

\* The texts hold no word of another metric and no risk phrase: the facts
\* are those of the patterns above.
extract_fundamentals_from_text(text) == facts_of_patterns(_METRIC_PATTERNS, text)

\* Digits of a positive mantissa below 1000.
ndigits(n) == IF n < 10 THEN 1 ELSE IF n < 100 THEN 2 ELSE 3

\* The mantissa on three digits.
padded(n) == IF n < 10 THEN 100 * n ELSE IF n < 100 THEN 10 * n ELSE n

abs_lt(a, b) ==
    IF Abs(a.m) = 0 \/ Abs(b.m) = 0 THEN Abs(a.m) = 0 /\ Abs(b.m) # 0
    ELSE LET ka == ndigits(Abs(a.m)) + a.e
             kb == ndigits(Abs(b.m)) + b.e
         IN ka < kb \/ (ka = kb /\ padded(Abs(a.m)) < padded(Abs(b.m)))

\* abs(a) > abs(b) on two floats: by the position of the leading digit,
\* then by the digits.
abs_gt(a, b) ==
    IF Abs(a.m) = 0 \/ Abs(b.m) = 0 THEN Abs(a.m) # 0 /\ Abs(b.m) = 0
    ELSE LET ka == ndigits(Abs(a.m)) + a.e
             kb == ndigits(Abs(b.m)) + b.e
         IN ka > kb \/ (ka = kb /\ padded(Abs(a.m)) > padded(Abs(b.m)))

\* key = (fact.metric_key, fact.period)
fact_key(fact) == <<fact.metric_key, fact.period>>

\* One pass of the loop of _select_best_facts: best is the dict's values in
\* insertion order.
keep_best(best, fact) ==
    LET at == {i \in 1..Len(best) : fact_key(best[i]) = fact_key(fact)}
    IN IF at = {} THEN Append(best, fact)
       ELSE LET i == CHOOSE k \in at : TRUE
            IN IF fact.value_num.null THEN best
               ELSE IF best[i].value_num.null
                       \/ abs_gt(fact.value_num, best[i].value_num)
               THEN [best EXCEPT ![i] = fact]
               ELSE best

RECURSIVE select_from(_, _)
select_from(best, facts) ==
    IF facts = <<>> THEN best
    ELSE select_from(keep_best(best, Head(facts)), Tail(facts))

_select_best_facts(facts) == select_from(<<>>, facts)

\* The facts a list of extracted facts is drawn from.
FactPool ==
    [metric_key : {"net_income", "revenue"},
     value_num : {NoneValue, Float(0, 0), Float(3, 0), Float(-3, 0), Float(12, -1)},
     value_raw : {<<>>}, unit : {"USD"}, period : {"none", "quarter"}]

\* process_parsed_sec_artifact reads the text and extracts the facts.
ExtractFacts ==
    /\ exPc = "text"
    /\ ex_raw_facts' = extract_fundamentals_from_text(ex_text)
    /\ exPc' = "extracted"
    /\ UNCHANGED <<selVars, pipeVars, regVars, httpVars, normVars, fundVars, ex_text, ex_facts>>

\* facts = _select_best_facts(raw_facts)
SelectBestFacts ==
    /\ exPc = "extracted"
    /\ ex_facts' = _select_best_facts(ex_raw_facts)
    /\ exPc' = "selected"
    /\ UNCHANGED <<selVars, pipeVars, regVars, httpVars, normVars, fundVars, ex_text,
                   ex_raw_facts>>

-----------------------------------------------------------------------------
(* _normalize_html_to_text on the characters of a raw document. The word   *)
(* "script" stands as one character; "x" is any other letter.              *)

\* Pieces the raw documents of the check are made of: the tags of a script
\* block, the five characters < / \ 1 >, another tag, a letter, a blank,
\* the two characters \ s, and the two angle brackets alone.
HtmlPieces ==
    {<<"<", "script", ">">>, <<"<", "/", "script", ">">>,
     <<"<", "/", "\\", "1", ">">>, <<"<", "x", ">">>, <<"x">>, <<" ">>,
     <<"\\", "s">>, <<"<">>, <<">">>}

\* Longest raw document, in pieces.
MaxPieces == 4

RECURSIVE RawTexts(_)
RawTexts(n) ==
    IF n = 0 THEN {<<>>}
    ELSE RawTexts(n - 1)
            \cup {t \o p : t \in RawTexts(n - 1), p \in HtmlPieces}

\* The literal stands in the text at position i.
literal_at(text, i, literal) ==
    /\ i >= 1
    /\ i + Len(literal) - 1 <= Len(text)
    /\ SubSeq(text, i, i + Len(literal) - 1) = literal

\* The first position from i on where the literal stands, 0 for none.
first_from(text, i, literal) ==
    LET hits == {m \in i..Len(text) : literal_at(text, m, literal)}
    IN IF hits = {} THEN 0 ELSE CHOOSE m \in hits : \A n \in hits : m <= n

\* r"(?is)<(script|style).*?>.*?</\\1>" matched at i: the position of the
\* last character of the match, 0 for no match. In the raw string the two
\* backslashes are a literal backslash, followed by the character 1.
script_end(text, i) ==
    IF literal_at(text, i, <<"<", "script">>)
    THEN LET k == first_from(text, i + 2, <<">">>)
             m == IF k = 0 THEN 0
                  ELSE first_from(text, k + 1, <<"<", "/", "\\", "1", ">">>)
         IN IF m = 0 THEN 0 ELSE m + 4
    ELSE 0

\* r"(?s)<[^>]+>" matched at i.
tag_end(text, i) ==
    IF literal_at(text, i, <<"<">>)
    THEN LET k == first_from(text, i + 1, <<">">>)
         IN IF k >= i + 2 THEN k ELSE 0
    ELSE 0

RECURSIVE run_of_s(_, _)
\* The last of the characters s that follow one another from position i.
run_of_s(text, i) ==
    IF literal_at(text, i + 1, <<"s">>) THEN run_of_s(text, i + 1) ELSE i

\* r"\\s+" matched at i: a literal backslash and the characters s after it.
whitespace_end(text, i) ==
    IF literal_at(text, i, <<"\\", "s">>) THEN run_of_s(text, i + 1) ELSE 0

RECURSIVE sub_scripts(_, _)
\* re.sub of the first pattern by a blank, from position i on.
sub_scripts(text, i) ==
    IF i > Len(text) THEN <<>>
    ELSE IF script_end(text, i) # 0
    THEN <<" ">> \o sub_scripts(text, script_end(text, i) + 1)
    ELSE <<text[i]>> \o sub_scripts(text, i + 1)

RECURSIVE sub_tags(_, _)
sub_tags(text, i) ==
    IF i > Len(text) THEN <<>>
    ELSE IF tag_end(text, i) # 0
    THEN <<" ">> \o sub_tags(text, tag_end(text, i) + 1)
    ELSE <<text[i]>> \o sub_tags(text, i + 1)

RECURSIVE sub_whitespace(_, _)
sub_whitespace(text, i) ==
    IF i > Len(text) THEN <<>>
    ELSE IF whitespace_end(text, i) # 0
    THEN <<" ">> \o sub_whitespace(text, whitespace_end(text, i) + 1)
    ELSE <<text[i]>> \o sub_whitespace(text, i + 1)

RECURSIVE strip(_)
\* str.strip()
strip(text) ==
    IF text = <<>> THEN text
    ELSE IF Head(text) = " " THEN strip(Tail(text))
    ELSE IF text[Len(text)] = " " THEN strip(SubSeq(text, 1, Len(text) - 1))
    ELSE text

_normalize_html_to_text(raw) ==
    LET no_scripts == sub_scripts(raw, 1)
        no_tags == sub_tags(no_scripts, 1)
    IN strip(sub_whitespace(no_tags, 1))

\* normalized_text = _normalize_html_to_text(raw_text)
NormalizeText ==
    /\ nzPc = "raw"
    /\ nz_text' = _normalize_html_to_text(nz_raw)
    /\ nzPc' = "normalized"
    /\ UNCHANGED <<selVars, pipeVars, regVars, httpVars, factVars, fundVars,
                   nz_raw>>

-----------------------------------------------------------------------------
(* process_parsed_sec_artifact and compute_changes_and_alerts, one commit  *)
(* per step, over the PARSED_TEXT artifacts of one filer.                  *)

Processors == {"p1", "p2"}

\* Extraction tasks, and direct calls of compute_changes_and_alerts,
\* started in one behaviour.
MaxExtractTasks == 2
MaxRecomputes == 1

\* The PARSED_TEXT artifacts: two annual reports of the filer, of the
\* periods ending 2023 and 2024, and a quarterly report of 2024.
ParsedArtifacts ==
    <<[instrument_id |-> 1, form_type |-> "10-K", period_end |-> 2023,
       filing_date |-> 2024],
      [instrument_id |-> 1, form_type |-> "10-K", period_end |-> 2024,
       filing_date |-> 2025],
      [instrument_id |-> 1, form_type |-> "10-Q", period_end |-> 2024,
       filing_date |-> 2024]>>

\* ExtractedFact of a metric, and of a risk flag (value_num=1.0, unit FLAG,
\* period None).
MetricFact(metric_key, m) ==
    [metric_key |-> metric_key, value_num |-> Float(m, 0), value_raw |-> <<>>,
     unit |-> "USD", period |-> "none"]

RiskFact(risk_key) ==
    [metric_key |-> risk_key, value_num |-> Float(1, 0), value_raw |-> <<>>,
     unit |-> "FLAG", period |-> "none"]

\* What extract_fundamentals_from_text finds in the text of a report: a
\* revenue, once or twice in the text, with or without the going-concern
\* phrase.
ExtractedLists ==
    {<<MetricFact("revenue", 100)>>,
     <<MetricFact("revenue", 80), MetricFact("revenue", 100)>>,
     <<MetricFact("revenue", 100), RiskFact("risk_going_concern")>>,
     <<MetricFact("revenue", 80), RiskFact("risk_going_concern")>>}

\* The rules of _DEFAULT_ALERT_RULES on the metrics of the model.
\* threshold_pct -0.10 is Float(-10, -2).
_DEFAULT_ALERT_RULES ==
    <<[id |-> "revenue_down_10pct", metric_key |-> "revenue",
       direction |-> "down", threshold_pct |-> Float(-10, -2),
       threshold_abs |-> NoneValue, severity |-> "high"],
      [id |-> "risk_going_concern", metric_key |-> "risk_going_concern",
       direction |-> "present", threshold_pct |-> NoneValue,
       threshold_abs |-> NoneValue, severity |-> "high"]>>

\* A rules file under rulesets/: three revenue rules of three severities
\* and the presence rule.
RulesFile ==
    <<[id |-> "revenue_down_5pct", metric_key |-> "revenue",
       direction |-> "down", threshold_pct |-> Float(-5, -2),
       threshold_abs |-> NoneValue, severity |-> "medium"],
      [id |-> "revenue_down_10pct", metric_key |-> "revenue",
       direction |-> "down", threshold_pct |-> Float(-10, -2),
       threshold_abs |-> NoneValue, severity |-> "high"],
      [id |-> "revenue_down_10", metric_key |-> "revenue",
       direction |-> "down", threshold_pct |-> NoneValue,
       threshold_abs |-> Float(-10, 0), severity |-> "low"],
      [id |-> "risk_going_concern", metric_key |-> "risk_going_concern",
       direction |-> "present", threshold_pct |-> NoneValue,
       threshold_abs |-> NoneValue, severity |-> "high"]>>

\* _load_alert_rules: the newest rules file, the defaults without one.
RuleSets == {_DEFAULT_ALERT_RULES, RulesFile}

RECURSIVE Pow10(_)
Pow10(n) == IF n = 0 THEN 1 ELSE 10 * Pow10(n - 1)

\* a - b and a <= b on two floats, at the smaller exponent of the two.
float_at(a, e) == a.m * Pow10(a.e - e)
float_sub(a, b) ==
    LET e == IF a.e < b.e THEN a.e ELSE b.e
    IN Float(float_at(a, e) - float_at(b, e), e)
float_le(a, b) ==
    LET e == IF a.e < b.e THEN a.e ELSE b.e
    IN float_at(a, e) <= float_at(b, e)

\* delta / prev_value, kept as the pair; None when prev_value is 0.
NoneRatio == [null |-> TRUE, num |-> NoneValue, den |-> NoneValue]
float_div(a, b) == [null |-> FALSE, num |-> a, den |-> b]

\* a.m * 10^a.e times b.m * 10^b.e
float_mul(a, b) == Float(a.m * b.m, a.e + b.e)

\* num / den <= t and num / den >= t, by the sign of den.
ratio_le(q, t) ==
    IF q.den.m > 0 THEN float_le(q.num, float_mul(t, q.den))
    ELSE float_le(float_mul(t, q.den), q.num)
ratio_ge(q, t) ==
    IF q.den.m > 0 THEN float_le(float_mul(t, q.den), q.num)
    ELSE float_le(q.num, float_mul(t, q.den))

ux_sec_fundamentals_snapshot_artifact_dropped(rows, artifact_id) == TRUE

\* UniqueConstraint("artifact_id") of SecFundamentalsSnapshot: whether the
\* table accepts a row for this artifact.
ux_sec_fundamentals_snapshot_artifact(rows, artifact_id) ==
    ~\E s \in Ids(rows) : rows[s].artifact_id = artifact_id

\* UniqueConstraint("curr_snapshot_id", "metric_key", "period") of
\* SecFundamentalsChange.
ux_sec_fundamentals_change_key(rows, curr_snapshot_id, metric_key, period) ==
    ~\E c \in Ids(rows) :
        /\ rows[c].curr_snapshot_id = curr_snapshot_id
        /\ rows[c].metric_key = metric_key
        /\ rows[c].period = period

\* .filter(SecFundamentalsSnapshot.artifact_id == artifact.id).first()
existing_snapshot(rows, artifact_id) ==
    LET hits == {s \in Ids(rows) : rows[s].artifact_id = artifact_id}
    IN IF hits = {} THEN 0 ELSE CHOOSE s \in hits : \A t \in hits : s <= t

existing_changes_not_counted(rows, snapshot_id) == 0

\* .filter(SecFundamentalsChange.curr_snapshot_id == snapshot.id).count()
existing_changes(rows, snapshot_id) ==
    Cardinality({c \in Ids(rows) : rows[c].curr_snapshot_id = snapshot_id})

\* The snapshot row process_parsed_sec_artifact builds for an artifact.
snapshot_of(artifact_id) ==
    [artifact_id |-> artifact_id,
     instrument_id |-> ParsedArtifacts[artifact_id].instrument_id,
     form_type |-> ParsedArtifacts[artifact_id].form_type,
     filing_date |-> ParsedArtifacts[artifact_id].filing_date,
     period_end |-> ParsedArtifacts[artifact_id].period_end]

\* The SecFundamentalsFact rows of the selected facts of a snapshot.
RECURSIVE fact_rows(_, _)
fact_rows(snapshot_id, selected_facts) ==
    IF selected_facts = <<>> THEN <<>>
    ELSE <<[snapshot_id |-> snapshot_id,
            metric_key |-> Head(selected_facts).metric_key,
            value_num |-> Head(selected_facts).value_num,
            unit |-> Head(selected_facts).unit,
            period |-> Head(selected_facts).period]>>
             \o fact_rows(snapshot_id, Tail(selected_facts))

\* order_by(period_end.desc(), filing_date.desc()): a comes before b.
ordered_before(a, b) ==
    \/ a.period_end > b.period_end
    \/ a.period_end = b.period_end /\ a.filing_date > b.filing_date

\* _latest_prior_snapshot: the first snapshot, in that order, of the same
\* instrument and form type with another id; 0 for None. Rows that tie
\* come in the order of their ids.
_latest_prior_snapshot(rows, snapshot_id) ==
    LET hits == {s \in Ids(rows) :
                    /\ rows[s].instrument_id = rows[snapshot_id].instrument_id
                    /\ rows[s].form_type = rows[snapshot_id].form_type
                    /\ s # snapshot_id}
    IN IF hits = {} THEN 0
       ELSE CHOOSE s \in hits :
              \A t \in hits \ {s} :
                  \/ ordered_before(rows[s], rows[t])
                  \/ ~ordered_before(rows[t], rows[s]) /\ s < t

\* _facts_by_key: the ids of the facts of a snapshot, in the order of the
\* query.
RECURSIVE ids_where(_, _, _)
ids_where(rows, snapshot_id, i) ==
    IF i > Len(rows) THEN <<>>
    ELSE IF rows[i].snapshot_id = snapshot_id
    THEN <<i>> \o ids_where(rows, snapshot_id, i + 1)
    ELSE ids_where(rows, snapshot_id, i + 1)

_facts_by_key(rows, snapshot_id) == ids_where(rows, snapshot_id, 1)

\* prior_facts.get(key): the id of the prior snapshot's fact of this key,
\* 0 for None. Of two rows with one key the dict keeps the later.
prior_fact(rows, prior_id, key) ==
    LET hits == {f \in Ids(rows) :
                    /\ rows[f].snapshot_id = prior_id
                    /\ <<rows[f].metric_key, rows[f].period>> = key}
    IN IF hits = {} THEN 0 ELSE CHOOSE f \in hits : \A g \in hits : g <= f

\* One rule against one change: the value of matched.
rule_matches(rule, change) ==
    IF rule.metric_key # change.metric_key THEN FALSE
    ELSE IF rule.direction = "present" THEN ~change.curr_value.null
    ELSE IF ~rule.threshold_pct.null /\ ~change.delta_pct.null
    THEN \/ rule.direction = "down" /\ ratio_le(change.delta_pct, rule.threshold_pct)
         \/ rule.direction = "up" /\ ratio_ge(change.delta_pct, rule.threshold_pct)
    ELSE IF ~rule.threshold_abs.null /\ ~change.delta.null
    THEN \/ rule.direction = "down" /\ float_le(change.delta, rule.threshold_abs)
         \/ rule.direction = "up" /\ float_le(rule.threshold_abs, change.delta)
    ELSE FALSE

RECURSIVE _evaluate_alert_rules(_, _)
\* _evaluate_alert_rules: one alert dict per rule that matched, in the
\* order of the rules.
_evaluate_alert_rules(change, ruleset) ==
    IF ruleset = <<>> THEN <<>>
    ELSE (IF rule_matches(Head(ruleset), change)
          THEN <<[alert_type |-> Head(ruleset).id,
                  severity |-> Head(ruleset).severity,
                  rule_id |-> Head(ruleset).id]>>
          ELSE <<>>) \o _evaluate_alert_rules(change, Tail(ruleset))

\* severity_rank
severity_rank(severity) ==
    CASE severity = "high" -> 3
      [] severity = "medium" -> 2
      [] severity = "low" -> 1
      [] OTHER -> 0

best_alert_first(alert_dicts) == alert_dicts[1]

\* max(alerts, key=severity_rank): the first alert of the highest rank.
best_alert(alert_dicts) ==
    alert_dicts[CHOOSE i \in 1..Len(alert_dicts) :
                   /\ \A j \in 1..Len(alert_dicts) :
                         severity_rank(alert_dicts[j].severity)
                             <= severity_rank(alert_dicts[i].severity)
                   /\ \A j \in 1..(i - 1) :
                         severity_rank(alert_dicts[j].severity)
                             < severity_rank(alert_dicts[i].severity)]

\* The SecFundamentalsChange row of a pair of facts, severity "info".
change_of(snapshot_id, prior_id, curr_fact, prev_fact) ==
    LET delta == float_sub(curr_fact.value_num, prev_fact.value_num)
    IN [curr_snapshot_id |-> snapshot_id, prev_snapshot_id |-> prior_id,
        metric_key |-> curr_fact.metric_key, period |-> curr_fact.period,
        prev_value |-> prev_fact.value_num, curr_value |-> curr_fact.value_num,
        delta |-> delta,
        delta_pct |-> IF prev_fact.value_num.m # 0
                      THEN float_div(delta, prev_fact.value_num) ELSE NoneRatio,
        severity |-> "info", rule_id |-> "none"]

\* The SecFundamentalsAlert rows of the alert dicts of a change.
RECURSIVE alert_rows(_, _, _)
alert_rows(alert_dicts, change_id, snapshot_id) ==
    IF alert_dicts = <<>> THEN <<>>
    ELSE <<[alert_type |-> Head(alert_dicts).alert_type,
            severity |-> Head(alert_dicts).severity, status |-> "open",
            rule_id |-> Head(alert_dicts).rule_id, change_id |-> change_id,
            curr_snapshot_id |-> snapshot_id]>>
             \o alert_rows(Tail(alert_dicts), change_id, snapshot_id)

NoCmp == [valid |-> FALSE, snapshot_id |-> 0, snapshots |-> 0, facts_n |-> 0,
          changes |-> 0, alerts |-> 0, computed |-> {}]

IdlePx ==
    [pc |-> "idle", artifact_id |-> 0, selected_facts |-> <<>>,
     snapshot_id |-> 0, prior |-> 0, seen |-> <<0, 0>>, todo |-> <<>>,
     pending |-> <<>>, direct |-> FALSE, again |-> FALSE, status |-> "none"]

\* The slot of a task that ended without a result: "skipped",
\* "IntegrityError".
EndedPx(status) == [IdlePx EXCEPT !.status = status]

\* The sizes of the tables now equal those the last returned
\* compute_changes_and_alerts left, for this snapshot.
NothingSince(snapshot_id) ==
    /\ last_cmp.valid
    /\ last_cmp.snapshot_id = snapshot_id
    /\ last_cmp.snapshots = Len(sec_fundamentals_snapshot)
    /\ last_cmp.facts_n = Len(sec_fundamentals_fact)
    /\ last_cmp.changes = Len(sec_fundamentals_change)
    /\ last_cmp.alerts = Len(sec_fundamentals_alert)

\* The numbers of snapshot rows and of fact rows a call reads when it
\* queries the prior snapshot and the facts.
Seen == <<Len(sec_fundamentals_snapshot), Len(sec_fundamentals_fact)>>

\* What last_cmp holds once a compute_changes_and_alerts on this snapshot
\* returned with these tables; ran tells that it went through its loop.
\* The record is valid when no snapshot or fact row was written between
\* the queries of the call and its return.
Returned(snapshot_id, seen, change_rows, alert_table, ran) ==
    [valid |-> seen = Seen, snapshot_id |-> snapshot_id,
     snapshots |-> Len(sec_fundamentals_snapshot),
     facts_n |-> Len(sec_fundamentals_fact),
     changes |-> Len(change_rows), alerts |-> Len(alert_table),
     computed |-> IF ran THEN last_cmp.computed \cup {snapshot_id}
                  ELSE last_cmp.computed]

\* The artifact has a snapshot: {"status": "skipped"}.
ProcessSkips(p, a) ==
    /\ px[p].pc = "idle"
    /\ extract_tasks < MaxExtractTasks
    /\ p = "p2" => px["p1"].pc # "idle"
    /\ existing_snapshot(sec_fundamentals_snapshot, a) # 0
    /\ extract_tasks' = extract_tasks + 1
    /\ px' = [px EXCEPT ![p] = EndedPx("skipped")]
    /\ UNCHANGED <<selVars, pipeVars, regVars, httpVars, normVars, factVars,
                   parsed_texts, rules, sec_fundamentals_snapshot,
                   sec_fundamentals_fact, sec_fundamentals_change,
                   sec_fundamentals_alert, last_cmp, recomputes>>

\* No snapshot yet: the text is read, the facts extracted and selected.
ProcessStart(p, a) ==
    /\ px[p].pc = "idle"
    /\ extract_tasks < MaxExtractTasks
    /\ p = "p2" => px["p1"].pc # "idle"
    /\ existing_snapshot(sec_fundamentals_snapshot, a) = 0
    /\ extract_tasks' = extract_tasks + 1
    /\ px' = [px EXCEPT ![p] =
                [IdlePx EXCEPT !.pc = "snapshot", !.artifact_id = a,
                               !.selected_facts =
                                   _select_best_facts(parsed_texts[a])]]
    /\ UNCHANGED <<selVars, pipeVars, regVars, httpVars, normVars, factVars,
                   parsed_texts, rules, sec_fundamentals_snapshot,
                   sec_fundamentals_fact, sec_fundamentals_change,
                   sec_fundamentals_alert, last_cmp, recomputes>>

\* db.add(snapshot); db.commit(): IntegrityError when another task stored
\* the artifact's snapshot meanwhile.
ProcessInsertSnapshot(p) ==
    /\ px[p].pc = "snapshot"
    /\ IF ux_sec_fundamentals_snapshot_artifact(sec_fundamentals_snapshot,
                                                px[p].artifact_id)
       THEN /\ sec_fundamentals_snapshot' =
                  Append(sec_fundamentals_snapshot, snapshot_of(px[p].artifact_id))
            /\ px' = [px EXCEPT ![p].pc = "facts",
                                ![p].snapshot_id = Len(sec_fundamentals_snapshot) + 1]
       ELSE /\ px' = [px EXCEPT ![p] = EndedPx("IntegrityError")]
            /\ UNCHANGED sec_fundamentals_snapshot
    /\ UNCHANGED <<selVars, pipeVars, regVars, httpVars, normVars, factVars,
                   parsed_texts, rules, sec_fundamentals_fact,
                   sec_fundamentals_change, sec_fundamentals_alert,
                   extract_tasks, last_cmp, recomputes>>

\* The facts are added and committed together.
ProcessInsertFacts(p) ==
    /\ px[p].pc = "facts"
    /\ sec_fundamentals_fact' =
          sec_fundamentals_fact \o fact_rows(px[p].snapshot_id, px[p].selected_facts)
    /\ px' = [px EXCEPT ![p].pc = "compute"]
    /\ UNCHANGED <<selVars, pipeVars, regVars, httpVars, normVars, factVars,
                   parsed_texts, rules, sec_fundamentals_snapshot,
                   sec_fundamentals_change, sec_fundamentals_alert,
                   extract_tasks, last_cmp, recomputes>>

\* compute_changes_and_alerts is called again on a snapshot whose task
\* has ended.
ComputeAgain(p, s) ==
    /\ px[p].pc = "idle"
    /\ recomputes < MaxRecomputes
    /\ p = "p2" => px["p1"].pc # "idle"
    /\ s \in Ids(sec_fundamentals_snapshot)
    /\ \A o \in Processors : px[o].snapshot_id # s
    /\ recomputes' = recomputes + 1
    /\ px' = [px EXCEPT ![p] =
                [IdlePx EXCEPT !.pc = "compute", !.snapshot_id = s,
                               !.artifact_id =
                                   sec_fundamentals_snapshot[s].artifact_id,
                               !.direct = TRUE]]
    /\ UNCHANGED <<selVars, pipeVars, regVars, httpVars, normVars, factVars,
                   parsed_texts, rules, sec_fundamentals_snapshot,
                   sec_fundamentals_fact, sec_fundamentals_change,
                   sec_fundamentals_alert, extract_tasks, last_cmp>>

\* compute_changes_and_alerts up to its loop: it returns when the snapshot
\* has changes or no prior snapshot.
ComputeStart(p) ==
    /\ px[p].pc = "compute"
    /\ LET s == px[p].snapshot_id
           prior == _latest_prior_snapshot(sec_fundamentals_snapshot, s)
           again == NothingSince(s)
       IN IF existing_changes(sec_fundamentals_change, s) > 0 \/ prior = 0
          THEN /\ px' = [px EXCEPT ![p].pc = "ret", ![p].again = again]
               /\ last_cmp' = Returned(s, Seen, sec_fundamentals_change,
                                       sec_fundamentals_alert, FALSE)
          ELSE /\ px' = [px EXCEPT
                           ![p].pc = "change", ![p].prior = prior,
                           ![p].again = again, ![p].seen = Seen,
                           ![p].todo = _facts_by_key(sec_fundamentals_fact, s)]
               /\ last_cmp' = [last_cmp EXCEPT !.computed = @ \ {s}]
    /\ UNCHANGED <<selVars, pipeVars, regVars, httpVars, normVars, factVars,
                   parsed_texts, rules, sec_fundamentals_snapshot,
                   sec_fundamentals_fact, sec_fundamentals_change,
                   sec_fundamentals_alert, extract_tasks, recomputes>>

\* One pass of the loop over current_facts; prior_facts holds the fact
\* rows that were there when it was queried. A fact with no prior fact or
\* without a value is passed over. Else the change is committed (with the
\* alerts the pass before added to the session), the rules are evaluated,
\* the severity and rule of the best alert are committed, and the alerts
\* are added to the session.
ComputeChange(p) ==
    /\ px[p].pc = "change"
    /\ px[p].todo # <<>>
    /\ LET s == px[p].snapshot_id
           curr_fact == sec_fundamentals_fact[Head(px[p].todo)]
           prev_id == prior_fact(SubSeq(sec_fundamentals_fact, 1, px[p].seen[2]),
                                 px[p].prior,
                                 <<curr_fact.metric_key, curr_fact.period>>)
           prev_fact == sec_fundamentals_fact[prev_id]
           change == change_of(s, px[p].prior, curr_fact, prev_fact)
           alert_dicts == _evaluate_alert_rules(change, rules)
           change_id == Len(sec_fundamentals_change) + 1
       IN IF prev_id = 0 \/ prev_fact.value_num.null \/ curr_fact.value_num.null
          THEN /\ px' = [px EXCEPT ![p].todo = Tail(px[p].todo)]
               /\ UNCHANGED <<sec_fundamentals_change, sec_fundamentals_alert>>
          ELSE IF ux_sec_fundamentals_change_key(sec_fundamentals_change, s,
                                                 curr_fact.metric_key,
                                                 curr_fact.period)
          THEN /\ sec_fundamentals_change' =
                     Append(sec_fundamentals_change,
                            IF alert_dicts = <<>> THEN change
                            ELSE [change EXCEPT
                                    !.severity = best_alert(alert_dicts).severity,
                                    !.rule_id = best_alert(alert_dicts).rule_id])
               /\ sec_fundamentals_alert' = sec_fundamentals_alert \o px[p].pending
               /\ px' = [px EXCEPT ![p].todo = Tail(px[p].todo),
                                   ![p].pending = alert_rows(alert_dicts, change_id, s)]
          ELSE /\ px' = [px EXCEPT ![p] = EndedPx("IntegrityError")]
               /\ UNCHANGED <<sec_fundamentals_change, sec_fundamentals_alert>>
    /\ UNCHANGED <<selVars, pipeVars, regVars, httpVars, normVars, factVars,
                   parsed_texts, rules, sec_fundamentals_snapshot,
                   sec_fundamentals_fact, extract_tasks, last_cmp, recomputes>>

\* The loop is over: the last commit stores the alerts still in the
\* session, and the counts are returned.
ComputeDone(p) ==
    /\ px[p].pc = "change"
    /\ px[p].todo = <<>>
    /\ sec_fundamentals_alert' = sec_fundamentals_alert \o px[p].pending
    /\ px' = [px EXCEPT ![p].pc = "ret", ![p].pending = <<>>]
    /\ last_cmp' = Returned(px[p].snapshot_id, px[p].seen,
                            sec_fundamentals_change,
                            sec_fundamentals_alert \o px[p].pending, TRUE)
    /\ UNCHANGED <<selVars, pipeVars, regVars, httpVars, normVars, factVars,
                   parsed_texts, rules, sec_fundamentals_snapshot,
                   sec_fundamentals_fact, sec_fundamentals_change,
                   extract_tasks, recomputes>>

\* {"status": "completed"}: the task is over.
ProcessReturn(p) ==
    /\ px[p].pc = "ret"
    /\ px' = [px EXCEPT ![p] = IdlePx]
    /\ UNCHANGED <<selVars, pipeVars, regVars, httpVars, normVars, factVars,
                   parsed_texts, rules, sec_fundamentals_snapshot,
                   sec_fundamentals_fact, sec_fundamentals_change,
                   sec_fundamentals_alert, extract_tasks, last_cmp, recomputes>>

\* The process of the task dies between two of its commits: what its
\* session had not committed is lost.
ProcessCrashes(p) ==
    /\ px[p].pc \in {"facts", "compute", "change"}
    /\ px' = [px EXCEPT ![p] = IdlePx]
    /\ UNCHANGED <<selVars, pipeVars, regVars, httpVars, normVars, factVars,
                   parsed_texts, rules, sec_fundamentals_snapshot,
                   sec_fundamentals_fact, sec_fundamentals_change,
                   sec_fundamentals_alert, extract_tasks, last_cmp, recomputes>>

-----------------------------------------------------------------------------
(* ingest_sec_filings_for_ticker, one database round trip per step.        *)

\* The accession number of the filing the loop of run r is at.
CurrentFiling(r) == ing[r].selected[ing[r].i]

\* The end of one loop iteration: the next filing, or the return.
NextFiling(run) ==
    IF run.i < Len(run.selected)
    THEN [run EXCEPT !.pc = "download", !.i = run.i + 1,
                     !.content_hash = "none", !.art = 0, !.is_new = FALSE,
                     !.changed = FALSE]
    ELSE [run EXCEPT !.pc = "ret", !.content_hash = "none", !.art = 0,
                     !.is_new = FALSE, !.changed = FALSE]

CompletedRun(run) ==
    IF run.clean
    THEN [valid |-> TRUE, artifact_ids |-> run.artifact_ids,
          parser_version |-> run.parser_version, solo |-> run.solo]
    ELSE NoRun

\* load_config, resolve_cik_for_ticker, get_company_submissions, select_filings.
\* The runs are interchangeable: a new one takes the first free slot.
IngestStart(r) ==
    /\ ing[r].pc = "idle"
    /\ ingest_runs < MaxIngestRuns
    /\ r = "r2" => ing["r1"].pc # "idle"
    /\ resolve_cik_for_ticker(instruments, company_tickers, Ticker) # "none"
    /\ instruments' = instruments_after_resolve(instruments, company_tickers,
                                                 Ticker)
    /\ ingest_runs' = ingest_runs + 1
    /\ LET sel == select_filings(submissions, lookback_10k, lookback_10q,
                                 include_amendments)
           run == [IdleIng EXCEPT !.pc = IF sel = <<>> THEN "ret" ELSE "download",
                                  !.parser_version = parser_version,
                                  !.selected = sel,
                                  !.i = IF sel = <<>> THEN 0 ELSE 1,
                                  !.base = last_run,
                                  !.solo = \A o \in Runners \ {r} : ~Active(o),
                                  !.clean = TRUE,
                                  !.resumes = \E o \in Runners : ing[o].stopped]
       IN /\ ing' = [o \in Runners |->
                        IF o = r THEN run
                        ELSE IF Active(o) THEN [ing[o] EXCEPT !.solo = FALSE]
                        ELSE ing[o]]
          /\ last_run' = IF sel = <<>> THEN CompletedRun(run) ELSE last_run
    /\ UNCHANGED <<selVars, company_tickers, auxVars,
                   parser_version, documents, sec_artifacts,
                   sec_parse_jobs, wk, parse_tasks, last_reg>>

\* resolve_cik_for_ticker raises SecEdgarError: the run ends before it
\* fetched the index or wrote a row.
IngestUnresolved(r) ==
    /\ ing[r].pc = "idle"
    /\ r = "r2" => ing["r1"].pc # "idle"
    /\ resolve_cik_for_ticker(instruments, company_tickers, Ticker) = "none"
    /\ ing' = [ing EXCEPT ![r] = StoppedIng]
    /\ UNCHANGED <<selVars, regVars, auxVars,
                   parser_version, documents, sec_artifacts,
                   sec_parse_jobs, wk, ingest_runs, parse_tasks, last_run,
                   last_reg>>

\* client.download_primary_document returns the bytes and their sha256.
IngestDownload(r) ==
    /\ ing[r].pc = "download"
    /\ ing' = [ing EXCEPT ![r].pc = "register",
                          ![r].content_hash = documents[CurrentFiling(r).accession_number]]
    /\ UNCHANGED <<selVars, regVars, auxVars,
                   parser_version, documents, sec_artifacts,
                   sec_parse_jobs, wk, ingest_runs, parse_tasks, last_run,
                   last_reg>>

\* The download raises SecEdgarError after its retries: nothing catches it
\* in the loop, so the run ends without returning.
IngestDownloadFails(r) ==
    /\ ing[r].pc = "download"
    /\ ing' = [ing EXCEPT ![r] = StoppedIng]
    /\ UNCHANGED <<selVars, regVars, auxVars,
                   parser_version, documents, sec_artifacts,
                   sec_parse_jobs, wk, ingest_runs, parse_tasks, last_run,
                   last_reg>>

\* What register_raw_artifact returned, and the loop's bookkeeping of it.
\* changed is history: the call found the row with another content hash.
Registered(run, id, created) ==
    [run EXCEPT !.pc = "job", !.art = id, !.is_new = created,
                !.changed = IF id \in Ids(sec_artifacts)
                            THEN sec_artifacts[id].content_hash # run.content_hash
                            ELSE FALSE,
                !.artifact_ids = Append(run.artifact_ids, id),
                !.created_raw_count = run.created_raw_count + (IF created THEN 1 ELSE 0)]

\* The call that just returned: what it was given, what it returned,
\* whether it updated the row, whether it repeated the call before it (it
\* began after that call returned, with the same filing and the same bytes),
\* and what that call returned.
RegCall(run, accession_number, id, created, updated, repeat) ==
    [valid |-> TRUE, accession_number |-> accession_number,
     content_hash |-> run.content_hash, id |-> id, created |-> created,
     updated |-> updated, repeat |-> repeat,
     before |-> IF repeat THEN last_reg.id ELSE 0]

\* The call of run r that begins now comes right after a call for the same
\* filing with the same bytes.
RepeatsLastCall(r, accession_number) ==
    /\ last_reg.valid
    /\ last_reg.accession_number = accession_number
    /\ last_reg.content_hash = ing[r].content_hash

needs_update_path_only(row, content_hash, storage_path) ==
    row.storage_path # storage_path

\* existing.content_hash != content_hash or existing.storage_path != storage_path
needs_update(row, content_hash, storage_path) ==
    \/ row.content_hash # content_hash
    \/ row.storage_path # storage_path

created_when_found_true == TRUE

\* return existing, False
created_when_found == FALSE

\* register_raw_artifact up to its first return: the lookup of the existing
\* RAW_FILING row and, when there is one, the update in place.
IngestRegisterLookup(r) ==
    /\ ing[r].pc = "register"
    /\ LET acc == CurrentFiling(r).accession_number
           path == _artifact_storage_path(Cik, acc)
           existing == find_raw(sec_artifacts, Cik, acc)
       IN IF existing # 0
          THEN /\ sec_artifacts' =
                    IF needs_update(sec_artifacts[existing], ing[r].content_hash, path)
                    THEN [sec_artifacts EXCEPT
                             ![existing].storage_path = path,
                             ![existing].content_hash = ing[r].content_hash]
                    ELSE sec_artifacts
               /\ ing' = [ing EXCEPT ![r] =
                             Registered(ing[r], existing, created_when_found)]
               /\ last_reg' = RegCall(ing[r], acc, existing, created_when_found,
                                      needs_update(sec_artifacts[existing],
                                                   ing[r].content_hash, path),
                                      RepeatsLastCall(r, acc))
          ELSE /\ ing' = [ing EXCEPT ![r].pc = "insert"]
               /\ UNCHANGED <<sec_artifacts, last_reg>>
    /\ UNCHANGED <<selVars, regVars, auxVars,
                   parser_version, documents, sec_parse_jobs, wk,
                   ingest_runs, parse_tasks, last_run>>

\* db.add(art); db.commit(): the insert, or the IntegrityError, the rollback
\* and the second lookup. Both ways return (art, True).
IngestRegisterInsert(r) ==
    /\ ing[r].pc = "insert"
    /\ LET acc == CurrentFiling(r).accession_number IN
       IF ux_sec_artifacts_filing_kind(sec_artifacts, Cik, acc, "RAW_FILING")
       THEN /\ sec_artifacts' = Append(sec_artifacts,
                                       raw_artifact(Cik, acc, ing[r].content_hash))
            /\ ing' = [ing EXCEPT ![r] = Registered(ing[r], Len(sec_artifacts) + 1, TRUE)]
            /\ last_reg' = RegCall(ing[r], acc, Len(sec_artifacts) + 1, TRUE, FALSE, FALSE)
       ELSE /\ ing' = [ing EXCEPT ![r] =
                          Registered(ing[r], find_raw(sec_artifacts, Cik, acc), TRUE)]
            /\ last_reg' = RegCall(ing[r], acc, find_raw(sec_artifacts, Cik, acc),
                                   TRUE, FALSE, FALSE)
            /\ UNCHANGED sec_artifacts
    /\ UNCHANGED <<selVars, regVars, auxVars,
                   parser_version, documents, sec_parse_jobs, wk,
                   ingest_runs, parse_tasks, last_run>>

\* The loop's bookkeeping of the job create_parse_job_if_needed returned.
JobCreated(run, id) ==
    NextFiling([run EXCEPT !.parse_job_ids = Append(run.parse_job_ids, id),
                           !.created_parse_job_count = run.created_parse_job_count + 1])

\* create_parse_job_if_needed up to its first return: the lookup by
\* idempotency key, with the version the run loaded at its start.
IngestJobLookup(r) ==
    /\ ing[r].pc = "job"
    /\ LET existing == find_job(sec_parse_jobs, idem_key(ing[r].art, ing[r].parser_version))
           next == NextFiling(ing[r])
       IN IF existing # 0
          THEN /\ ing' = [ing EXCEPT ![r] = next]
               /\ last_run' = IF next.pc = "ret" THEN CompletedRun(next) ELSE last_run
          ELSE /\ ing' = [ing EXCEPT ![r].pc = "jobinsert"]
               /\ UNCHANGED last_run
    /\ UNCHANGED <<selVars, regVars, auxVars,
                   parser_version, documents, sec_artifacts,
                   sec_parse_jobs, wk, ingest_runs, parse_tasks, last_reg>>

\* db.add(job); db.commit(): the insert, or the IntegrityError, the rollback
\* and the second lookup. Both ways return a job.
IngestJobInsert(r) ==
    /\ ing[r].pc = "jobinsert"
    /\ LET key == idem_key(ing[r].art, ing[r].parser_version)
           created == idempotency_key_unique(sec_parse_jobs, key)
           id == IF created THEN Len(sec_parse_jobs) + 1 ELSE find_job(sec_parse_jobs, key)
           next == JobCreated(ing[r], id)
       IN /\ sec_parse_jobs' =
               IF created
               THEN Append(sec_parse_jobs, new_parse_job(ing[r].art, ing[r].parser_version))
               ELSE sec_parse_jobs
          /\ ing' = [ing EXCEPT ![r] = next]
          /\ last_run' = IF next.pc = "ret" THEN CompletedRun(next) ELSE last_run
    /\ UNCHANGED <<selVars, regVars, auxVars,
                   parser_version, documents, sec_artifacts, wk,
                   ingest_runs, parse_tasks, last_reg>>

\* The process of the run dies between two of its commits.
IngestCrashes(r) ==
    /\ ing[r].pc \in {"register", "insert", "job", "jobinsert"}
    /\ ing' = [ing EXCEPT ![r] = StoppedIng]
    /\ UNCHANGED <<selVars, regVars, auxVars,
                   parser_version, documents, sec_artifacts,
                   sec_parse_jobs, wk, ingest_runs, parse_tasks, last_run,
                   last_reg>>

\* The caller has the result; the run's locals are gone.
IngestReturn(r) ==
    /\ ing[r].pc = "ret"
    /\ ing' = [ing EXCEPT ![r] = IdleIng]
    /\ UNCHANGED <<selVars, regVars, auxVars,
                   parser_version, documents, sec_artifacts,
                   sec_parse_jobs, wk, ingest_runs, parse_tasks, last_run,
                   last_reg>>

-----------------------------------------------------------------------------
(* sec_parse_filing_task, one database round trip per step. A task for a   *)
(* job is dispatched when ingestion creates the job, for every QUEUED or   *)
(* FAILED job of the ticker after the ingest endpoint ran, and for every   *)
(* job a requeue reset; the broker delivers it at any later time.          *)

lock_ignored(job) == FALSE

\* if job.locked_by and job.locked_at
Locked(job) == job.locked_by # "none" /\ job.locked_at

\* The task loads the job and goes on to claim it. The workers are
\* interchangeable: a task takes the first free one.
WorkerLoad(w, j) ==
    /\ wk[w].pc = "idle"
    /\ parse_tasks < MaxParseTasks
    /\ w = "w2" => wk["w1"].pc # "idle"
    /\ parse_tasks' = parse_tasks + 1
    /\ j \in Ids(sec_parse_jobs)
    /\ sec_parse_jobs[j].status \notin {"DONE", "DEADLETTER"}
    /\ ~Locked(sec_parse_jobs[j])
    /\ wk' = [wk EXCEPT ![w] = [IdleWk EXCEPT
                  !.pc = "claim", !.parse_job_id = j,
                  !.attempt_count = sec_parse_jobs[j].attempt_count,
                  !.parser_version = parser_version]]
    /\ UNCHANGED <<selVars, regVars, auxVars,
                   parser_version, documents, sec_artifacts,
                   sec_parse_jobs, ing, ingest_runs, last_run, last_reg>>

\* The task returns "skipped" (job DONE or DEADLETTER) or "locked".
WorkerReturnsEarly(w, j) ==
    /\ wk[w].pc = "idle"
    /\ j \in Ids(sec_parse_jobs)
    /\ \/ sec_parse_jobs[j].status \in {"DONE", "DEADLETTER"}
       \/ Locked(sec_parse_jobs[j])
    /\ UNCHANGED vars

claimed_if_unlocked(job, worker_id, attempt_count) ==
    IF job.locked_by # "none" /\ job.locked_at THEN job
    ELSE [job EXCEPT !.locked_by = worker_id, !.locked_at = TRUE,
                     !.status = "RUNNING",
                     !.attempt_count = attempt_count + 1,
                     !.last_error = "none"]

\* The row the claim commits: the assignments to the loaded job, as an
\* UPDATE by id whatever the row holds by now. attempt_count is the value
\* the task loaded plus one.
claimed(job, worker_id, attempt_count) ==
    [job EXCEPT !.locked_by = worker_id, !.locked_at = TRUE,
                !.status = "RUNNING",
                !.attempt_count = attempt_count + 1,
                !.last_error = "none"]

\* locked_by, locked_at, status, attempt_count, last_error; db.commit().
WorkerClaim(w) ==
    /\ wk[w].pc = "claim"
    /\ sec_parse_jobs' = [sec_parse_jobs EXCEPT ![wk[w].parse_job_id] =
            claimed(@, w, wk[w].attempt_count)]
    /\ wk' = [wk EXCEPT ![w].pc = "check"]
    /\ UNCHANGED <<selVars, regVars, auxVars,
                   parser_version, documents, sec_artifacts, ing,
                   ingest_runs, parse_tasks, last_run, last_reg>>

\* The artifact is loaded (jobs are created for RAW_FILING rows only and no
\* row is ever deleted, so it is there and RAW), then the idempotent check:
\* a PARSED_TEXT row of this parent and parser version sends the job to DONE.
WorkerCheckParsed(w) ==
    /\ wk[w].pc = "check"
    /\ LET j == wk[w].parse_job_id
           existing_parsed == find_parsed(sec_artifacts, sec_parse_jobs[j].artifact_id,
                                          wk[w].parser_version)
       IN IF existing_parsed # 0
          THEN /\ sec_parse_jobs' = [sec_parse_jobs EXCEPT ![j].status = "DONE"]
               /\ wk' = [wk EXCEPT ![w] = IdleWk]
          ELSE /\ wk' = [wk EXCEPT ![w].pc = "parse"]
               /\ UNCHANGED sec_parse_jobs
    /\ UNCHANGED <<selVars, regVars, auxVars,
                   parser_version, documents, sec_artifacts, ing,
                   ingest_runs, parse_tasks, last_run, last_reg>>

\* Reading the raw file or writing the text file raises.
WorkerParseRaises(w) ==
    /\ wk[w].pc = "parse"
    /\ wk' = [wk EXCEPT ![w].pc = "except", ![w].error = "OSError"]
    /\ UNCHANGED <<selVars, regVars, auxVars,
                   parser_version, documents, sec_artifacts,
                   sec_parse_jobs, ing, ingest_runs, parse_tasks, last_run,
                   last_reg>>

\* db.add(parsed_artifact); db.commit(): the insert, or the IntegrityError of
\* the unique constraint, which the task's except clause catches.
WorkerInsertParsed(w) ==
    /\ wk[w].pc = "parse"
    /\ LET raw == sec_parse_jobs[wk[w].parse_job_id].artifact_id
           row == parsed_artifact(sec_artifacts, raw, wk[w].parser_version)
       IN IF ux_sec_artifacts_filing_kind(sec_artifacts, row.cik,
                                          row.accession_number, row.artifact_kind)
          THEN /\ sec_artifacts' = Append(sec_artifacts, row)
               /\ wk' = [wk EXCEPT ![w].pc = "done"]
          ELSE /\ wk' = [wk EXCEPT ![w].pc = "except", ![w].error = "IntegrityError"]
               /\ UNCHANGED sec_artifacts
    /\ UNCHANGED <<selVars, regVars, auxVars,
                   parser_version, documents, sec_parse_jobs, ing,
                   ingest_runs, parse_tasks, last_run, last_reg>>

\* job.status = DONE; db.commit().
WorkerDone(w) ==
    /\ wk[w].pc = "done"
    /\ sec_parse_jobs' = [sec_parse_jobs EXCEPT ![wk[w].parse_job_id].status = "DONE"]
    /\ wk' = [wk EXCEPT ![w] = IdleWk]
    /\ UNCHANGED <<selVars, regVars, auxVars,
                   parser_version, documents, sec_artifacts, ing,
                   ingest_runs, parse_tasks, last_run, last_reg>>

status_after_error_kept(job) == job.status

status_after_error_above_only(job) ==
    IF job.attempt_count > job.max_attempts THEN "DEADLETTER" ELSE "FAILED"

\* if job.attempt_count >= (job.max_attempts or 3): DEADLETTER else FAILED
status_after_error(job) ==
    IF job.attempt_count >= job.max_attempts THEN "DEADLETTER" ELSE "FAILED"

\* The except clause: the job is read again, last_error set, and the status
\* decided by the attempt count now stored. Neither error is a RuntimeError,
\* so the task does not ask Celery for a retry.
WorkerExcept(w) ==
    /\ wk[w].pc = "except"
    /\ LET j == wk[w].parse_job_id IN
       sec_parse_jobs' = [sec_parse_jobs EXCEPT ![j] =
            [@ EXCEPT !.last_error = wk[w].error,
                      !.status = status_after_error(sec_parse_jobs[j])]]
    /\ wk' = [wk EXCEPT ![w] = IdleWk]
    /\ UNCHANGED <<selVars, regVars, auxVars,
                   parser_version, documents, sec_artifacts, ing,
                   ingest_runs, parse_tasks, last_run, last_reg>>

\* The worker process is killed after the claim was committed and before
\* the task wrote a final status: nothing more is written. A task that is
\* delivered for the job afterwards is a WorkerLoad or WorkerReturnsEarly.
WorkerCrashes(w) ==
    /\ wk[w].pc \in {"check", "parse", "done", "except"}
    /\ wk' = [wk EXCEPT ![w] = IdleWk]
    /\ UNCHANGED <<selVars, regVars, auxVars,
                   parser_version, documents, sec_artifacts,
                   sec_parse_jobs, ing, ingest_runs, parse_tasks, last_run,
                   last_reg>>

-----------------------------------------------------------------------------
(* The requeue endpoint, the operator and the registry.                    *)

requeue_statuses_and_done == {"QUEUED", "FAILED", "DEADLETTER", "DONE"}

\* SecParseJob.status.in_([QUEUED, FAILED, DEADLETTER])
requeue_statuses == {"QUEUED", "FAILED", "DEADLETTER"}

\* requeue_sec_parse_jobs: every QUEUED, FAILED or DEADLETTER job of the
\* ticker goes to QUEUED with last_error and the lock cleared.
Requeue ==
    /\ \E j \in Ids(sec_parse_jobs) :
          sec_parse_jobs[j].status \in requeue_statuses
    /\ sec_parse_jobs' = [j \in Ids(sec_parse_jobs) |->
          IF sec_parse_jobs[j].status \in requeue_statuses
          THEN [sec_parse_jobs[j] EXCEPT !.status = "QUEUED", !.last_error = "none",
                                         !.locked_by = "none", !.locked_at = FALSE]
          ELSE sec_parse_jobs[j]]
    /\ UNCHANGED <<selVars, regVars, auxVars,
                   parser_version, documents, sec_artifacts, ing, wk,
                   ingest_runs, parse_tasks, last_run, last_reg>>

\* The operator deploys the next SEC_PARSER_VERSION.
SetParserVersion(v) ==
    /\ parser_version = "v0"
    /\ v = "v1"
    /\ parser_version' = v
    /\ UNCHANGED <<selVars, regVars, auxVars,
                   documents, sec_artifacts, sec_parse_jobs, ing, wk,
                   ingest_runs, parse_tasks, last_run, last_reg>>

\* The registry serves revised bytes for a filing's primary document.
RegistryContentChanges(acc, h) ==
    /\ \E i \in 1..Len(submissions) : submissions[i].accessionNumber = acc
    /\ documents[acc] = "h1"
    /\ h = "h2"
    /\ documents' = [documents EXCEPT ![acc] = h]
    /\ ing' = RegistryChanged(ing)
    /\ last_run' = NoRun
    /\ UNCHANGED <<selVars, regVars, auxVars,
                   parser_version, sec_artifacts, sec_parse_jobs, wk,
                   ingest_runs, parse_tasks, last_reg>>

\* The registry publishes another company_tickers.json: the ticker is
\* listed, delisted, or listed without a CIK number.
RegistryIndexChanges(index) ==
    /\ index # company_tickers
    /\ company_tickers' = index
    /\ UNCHANGED <<selVars, pipeVars, instruments, auxVars>>

-----------------------------------------------------------------------------
(* The pipeline: ingest runs, parse workers, requeue, operator, registry.  *)

\* The ticker is in the index and no instrument row exists yet.
InitReg ==
    /\ company_tickers = {[ticker |-> Ticker, cik_str |-> "320193"]}
    /\ instruments = {}

\* No parsed artifact, no snapshot, no extraction task.
InitFund ==
    /\ parsed_texts = [a \in Ids(ParsedArtifacts) |-> <<>>]
    /\ rules = _DEFAULT_ALERT_RULES
    /\ sec_fundamentals_snapshot = <<>>
    /\ sec_fundamentals_fact = <<>>
    /\ sec_fundamentals_change = <<>>
    /\ sec_fundamentals_alert = <<>>
    /\ px = [p \in Processors |-> IdlePx]
    /\ extract_tasks = 0
    /\ recomputes = 0
    /\ last_cmp = NoCmp

\* No text under normalization.
InitNormalize ==
    /\ nz_raw = <<>>
    /\ nz_text = <<>>
    /\ nzPc = "idle"

\* No text under extraction.
InitFacts ==
    /\ ex_text = <<>>
    /\ ex_raw_facts = <<>>
    /\ ex_facts = <<>>
    /\ exPc = "idle"

\* No client call under observation.
InitAux ==
    /\ http = IdleHttp
    /\ InitNormalize
    /\ InitFacts
    /\ InitFund


InitPipe ==
    /\ parser_version = "v0"
    /\ documents = [a \in Accessions |-> "h1"]
    /\ sec_artifacts = <<>>
    /\ sec_parse_jobs = <<>>
    /\ ing = [r \in Runners |-> IdleIng]
    /\ wk = [w \in Workers |-> IdleWk]
    /\ ingest_runs = 0
    /\ parse_tasks = 0
    /\ last_run = NoRun
    /\ last_reg = NoReg

Init ==
    /\ submissions = <<FilingA>>
    /\ lookback_10k = default_lookback_10k
    /\ lookback_10q = default_lookback_10q
    /\ include_amendments = FALSE
    /\ sec_parse_max_attempts = parse_max_attempts
    /\ selected = <<>>
    /\ reselected = <<>>
    /\ selPc = "idle"
    /\ InitPipe
    /\ InitReg
    /\ InitAux

Next ==
    \/ \E r \in Runners : IngestStart(r)
    \/ \E r \in Runners : IngestDownload(r)
    \/ \E r \in Runners : IngestDownloadFails(r)
    \/ \E r \in Runners : IngestRegisterLookup(r)
    \/ \E r \in Runners : IngestRegisterInsert(r)
    \/ \E r \in Runners : IngestJobLookup(r)
    \/ \E r \in Runners : IngestJobInsert(r)
    \/ \E r \in Runners : IngestCrashes(r)
    \/ \E r \in Runners : IngestReturn(r)
    \/ \E w \in Workers : \E j \in Ids(sec_parse_jobs) : WorkerLoad(w, j)
    \/ \E w \in Workers : \E j \in Ids(sec_parse_jobs) : WorkerReturnsEarly(w, j)
    \/ \E w \in Workers : WorkerClaim(w)
    \/ \E w \in Workers : WorkerCheckParsed(w)
    \/ \E w \in Workers : WorkerParseRaises(w)
    \/ \E w \in Workers : WorkerInsertParsed(w)
    \/ \E w \in Workers : WorkerDone(w)
    \/ \E w \in Workers : WorkerExcept(w)
    \/ Requeue
    \/ \E v \in ParserVersions : SetParserVersion(v)
    \/ \E acc \in Accessions : \E h \in Hashes : RegistryContentChanges(acc, h)

Spec == Init /\ [][Next]_vars

-----------------------------------------------------------------------------
(* The pipeline deployed with SEC_PARSE_MAX_ATTEMPTS set to 1 or 2: the    *)
(* first or the second failed attempt of a job exhausts its attempts.      *)

\* SEC_PARSE_MAX_ATTEMPTS as the deployment sets it.
RetryLimits == {1, 2}

InitRetry ==
    /\ submissions = <<FilingA>>
    /\ lookback_10k = default_lookback_10k
    /\ lookback_10q = default_lookback_10q
    /\ include_amendments = FALSE
    /\ sec_parse_max_attempts \in RetryLimits
    /\ selected = <<>>
    /\ reselected = <<>>
    /\ selPc = "idle"
    /\ InitPipe
    /\ InitReg
    /\ InitAux

SpecRetry == InitRetry /\ [][Next]_vars

\* The pipeline with worker processes that can be killed mid-run.
NextCrash ==
    \/ Next
    \/ \E w \in Workers : WorkerCrashes(w)

SpecCrash == Init /\ [][NextCrash]_vars

-----------------------------------------------------------------------------
(* Ingestion on its own over an index of two filings: runs that overlap,   *)
(* fail on a download or die between commits, and runs that follow them.   *)

\* A second filing of the index, older than FilingA.
FilingB == [form |-> "10-Q", filingDate |-> "2023-01-31", accessionNumber |-> 2]

InitIngest ==
    /\ submissions = <<FilingA, FilingB>>
    /\ lookback_10k = default_lookback_10k
    /\ lookback_10q = default_lookback_10q
    /\ include_amendments = FALSE
    /\ sec_parse_max_attempts = parse_max_attempts
    /\ selected = <<>>
    /\ reselected = <<>>
    /\ selPc = "idle"
    /\ InitPipe
    /\ InitReg
    /\ InitAux

NextIngest ==
    \/ \E r \in Runners : IngestStart(r)
    \/ \E r \in Runners : IngestDownload(r)
    \/ \E r \in Runners : IngestDownloadFails(r)
    \/ \E r \in Runners : IngestRegisterLookup(r)
    \/ \E r \in Runners : IngestRegisterInsert(r)
    \/ \E r \in Runners : IngestJobLookup(r)
    \/ \E r \in Runners : IngestJobInsert(r)
    \/ \E r \in Runners : IngestCrashes(r)
    \/ \E r \in Runners : IngestReturn(r)
    \/ \E v \in ParserVersions : SetParserVersion(v)
    \/ \E acc \in Accessions : \E h \in Hashes : RegistryContentChanges(acc, h)

SpecIngest == InitIngest /\ [][NextIngest]_vars

-----------------------------------------------------------------------------
(* Ingestion of a ticker the registry may or may not list, with or without *)
(* an instrument row, while the registry republishes its ticker index.     *)

InitResolve ==
    /\ submissions = <<FilingA>>
    /\ lookback_10k = default_lookback_10k
    /\ lookback_10q = default_lookback_10q
    /\ include_amendments = FALSE
    /\ sec_parse_max_attempts = parse_max_attempts
    /\ selected = <<>>
    /\ reselected = <<>>
    /\ selPc = "idle"
    /\ InitPipe
    /\ company_tickers \in TickerIndexes
    /\ instruments \in InstrumentTables
    /\ InitAux

NextResolve ==
    \/ \E r \in Runners : IngestStart(r)
    \/ \E r \in Runners : IngestUnresolved(r)
    \/ \E r \in Runners : IngestDownload(r)
    \/ \E r \in Runners : IngestDownloadFails(r)
    \/ \E r \in Runners : IngestRegisterLookup(r)
    \/ \E r \in Runners : IngestRegisterInsert(r)
    \/ \E r \in Runners : IngestJobLookup(r)
    \/ \E r \in Runners : IngestJobInsert(r)
    \/ \E r \in Runners : IngestCrashes(r)
    \/ \E r \in Runners : IngestReturn(r)
    \/ \E index \in TickerIndexes : RegistryIndexChanges(index)

SpecResolve == InitResolve /\ [][NextResolve]_vars

-----------------------------------------------------------------------------
(* One call of the client's GET helpers, whatever the registry answers.    *)

InitRequest ==
    /\ submissions = <<FilingA>>
    /\ lookback_10k = default_lookback_10k
    /\ lookback_10q = default_lookback_10q
    /\ include_amendments = FALSE
    /\ sec_parse_max_attempts = parse_max_attempts
    /\ selected = <<>>
    /\ reselected = <<>>
    /\ selPc = "idle"
    /\ InitPipe
    /\ InitReg
    /\ InitAux

NextRequest ==
    \/ \E kind \in RequestKinds : \E n \in RetryMaxes : RequestStart(kind, n)
    \/ \E resp \in Responses : RequestGets(resp)

SpecRequest == InitRequest /\ [][NextRequest]_vars

-----------------------------------------------------------------------------
(* The extraction of the facts of one text, any text of the tokens.        *)

InitExtract ==
    /\ submissions = <<FilingA>>
    /\ lookback_10k = default_lookback_10k
    /\ lookback_10q = default_lookback_10q
    /\ include_amendments = FALSE
    /\ sec_parse_max_attempts = parse_max_attempts
    /\ selected = <<>>
    /\ reselected = <<>>
    /\ selPc = "idle"
    /\ InitPipe
    /\ InitReg
    /\ http = IdleHttp
    /\ InitNormalize
    /\ InitFund
    /\ ex_text \in SeqsUpTo(Tokens, MaxTokens)
    /\ ex_raw_facts = <<>>
    /\ ex_facts = <<>>
    /\ exPc = "text"

NextExtract == ExtractFacts \/ SelectBestFacts

SpecExtract == InitExtract /\ [][NextExtract]_vars

-----------------------------------------------------------------------------
(* _select_best_facts on its own: any list of extracted facts.             *)

InitBest ==
    /\ submissions = <<FilingA>>
    /\ lookback_10k = default_lookback_10k
    /\ lookback_10q = default_lookback_10q
    /\ include_amendments = FALSE
    /\ sec_parse_max_attempts = parse_max_attempts
    /\ selected = <<>>
    /\ reselected = <<>>
    /\ selPc = "idle"
    /\ InitPipe
    /\ InitReg
    /\ http = IdleHttp
    /\ InitNormalize
    /\ InitFund
    /\ ex_text = <<>>
    /\ ex_raw_facts \in SeqsUpTo(FactPool, MaxFacts)
    /\ ex_facts = <<>>
    /\ exPc = "extracted"

NextBest == SelectBestFacts

SpecBest == InitBest /\ [][NextBest]_vars

-----------------------------------------------------------------------------
(* The extraction tasks of the filer's parsed artifacts, whatever their    *)
(* texts hold, in any order, two at a time, under either ruleset.          *)

InitFundamentals ==
    /\ submissions = <<FilingA>>
    /\ lookback_10k = default_lookback_10k
    /\ lookback_10q = default_lookback_10q
    /\ include_amendments = FALSE
    /\ sec_parse_max_attempts = parse_max_attempts
    /\ selected = <<>>
    /\ reselected = <<>>
    /\ selPc = "idle"
    /\ InitPipe
    /\ InitReg
    /\ http = IdleHttp
    /\ InitNormalize
    /\ InitFacts
    /\ parsed_texts \in {t \in [Ids(ParsedArtifacts) -> ExtractedLists] :
                            t[3] = <<MetricFact("revenue", 100),
                                     RiskFact("risk_going_concern")>>}
    /\ rules \in RuleSets
    /\ sec_fundamentals_snapshot = <<>>
    /\ sec_fundamentals_fact = <<>>
    /\ sec_fundamentals_change = <<>>
    /\ sec_fundamentals_alert = <<>>
    /\ px = [p \in Processors |-> IdlePx]
    /\ extract_tasks = 0
    /\ recomputes = 0
    /\ last_cmp = NoCmp

NextFundamentals ==
    \/ \E p \in Processors : \E a \in Ids(ParsedArtifacts) : ProcessSkips(p, a)
    \/ \E p \in Processors : \E a \in Ids(ParsedArtifacts) : ProcessStart(p, a)
    \/ \E p \in Processors : ProcessInsertSnapshot(p)
    \/ \E p \in Processors : ProcessInsertFacts(p)
    \/ \E p \in Processors : \E s \in Ids(sec_fundamentals_snapshot) : ComputeAgain(p, s)
    \/ \E p \in Processors : ComputeStart(p)
    \/ \E p \in Processors : ComputeChange(p)
    \/ \E p \in Processors : ComputeDone(p)
    \/ \E p \in Processors : ProcessReturn(p)
    \/ \E p \in Processors : ProcessCrashes(p)

SpecFundamentals == InitFundamentals /\ [][NextFundamentals]_vars

-----------------------------------------------------------------------------
(* _normalize_html_to_text on its own: any raw document of the pieces.     *)

InitNormalizeAny ==
    /\ submissions = <<FilingA>>
    /\ lookback_10k = default_lookback_10k
    /\ lookback_10q = default_lookback_10q
    /\ include_amendments = FALSE
    /\ sec_parse_max_attempts = parse_max_attempts
    /\ selected = <<>>
    /\ reselected = <<>>
    /\ selPc = "idle"
    /\ InitPipe
    /\ InitReg
    /\ http = IdleHttp
    /\ InitFacts
    /\ InitFund
    /\ nz_raw \in RawTexts(MaxPieces)
    /\ nz_text = <<>>
    /\ nzPc = "raw"

NextNormalize == NormalizeText

SpecNormalize == InitNormalizeAny /\ [][NextNormalize]_vars

-----------------------------------------------------------------------------
(* The selector on its own: any index, any lookbacks, either flag.         *)

InitSelect ==
    /\ submissions \in SeqsUpTo(IndexRows, MaxLen)
    /\ lookback_10k \in Lookbacks
    /\ lookback_10q \in Lookbacks
    /\ include_amendments \in BOOLEAN
    /\ sec_parse_max_attempts = parse_max_attempts
    /\ selected = <<>>
    /\ reselected = <<>>
    /\ selPc = "idle"
    /\ InitPipe
    /\ InitReg
    /\ InitAux

SelectCall ==
    /\ selPc = "idle"
    /\ selected' = select_filings(submissions, lookback_10k, lookback_10q,
                                  include_amendments)
    /\ selPc' = "called"
    /\ UNCHANGED <<submissions, cfgVars, reselected, pipeVars, regVars, auxVars>>

SelectAgain ==
    /\ selPc = "called"
    /\ reselected' = select_filings(submissions, lookback_10k, lookback_10q,
                                    include_amendments)
    /\ selPc' = "twice"
    /\ UNCHANGED <<submissions, cfgVars, selected, pipeVars, regVars, auxVars>>

NextSelect == SelectCall \/ SelectAgain

SpecSelect == InitSelect /\ [][NextSelect]_vars

-----------------------------------------------------------------------------
(* Properties of the selector.                                             *)

\* The row select_filings builds for position i of the index.
row_at(i) ==
    [form |-> submissions[i].form,
     filing_date |-> _parse_date_safe(submissions[i].filingDate),
     accession_number |-> submissions[i].accessionNumber]

\* Positions of the index that hold an eligible filing with a valid date.
EligiblePositions ==
    {i \in 1..Len(submissions) :
        /\ _eligible_form(submissions[i].form, include_amendments)
        /\ _parse_date_safe(submissions[i].filingDate) # None}

AnnualPositions == {i \in EligiblePositions : startswith_10K(submissions[i].form)}
QuarterlyPositions == {i \in EligiblePositions : startswith_10Q(submissions[i].form)}

Occurrences(seq, r) == Cardinality({k \in 1..Len(seq) : seq[k] = r})
PositionsOf(P, r) == Cardinality({i \in P : row_at(i) = r})
Min(a, b) == IF a < b THEN a ELSE b

OrderedDesc(seq) ==
    \A i \in 1..Len(seq) : \A j \in 1..Len(seq) :
        i < j => ~key_lt(seq[i], seq[j])

\* What C2 says of one bucket: P its eligible positions, cap its lookback.
BucketExact(P, cap) ==
    LET rows == {row_at(i) : i \in P}
        sel(r) == Occurrences(selected, r)
        left(r) == PositionsOf(P, r) - sel(r)
    IN /\ \A r \in rows : sel(r) <= PositionsOf(P, r)
       /\ Cardinality({k \in 1..Len(selected) : selected[k] \in rows})
            = Min(cap, Cardinality(P))
       /\ \A s \in rows : \A u \in rows :
            (sel(s) > 0 /\ left(u) > 0) => ~key_lt(s, u)

\* C1: the result of select_filings is ordered by filing date descending,
\* ties broken by accession number descending, and a second call on the
\* same index with the same parameters returns the identical ordered list.
C1_SelectOrderedAndRepeatable ==
    /\ selPc # "idle" => OrderedDesc(selected)
    /\ selPc = "twice" => reselected = selected

\* C1 witness: two calls made, and the result holds two filings of one
\* filing date that the accession number had to order.
C1_Witness ==
    /\ selPc = "twice"
    /\ Len(selected) >= 2
    /\ \E i \in 1..Len(selected) - 1 :
          /\ selected[i].filing_date = selected[i + 1].filing_date
          /\ selected[i].accession_number > selected[i + 1].accession_number

\* C2: select_filings returns exactly min(N, a) filings of the annual bucket
\* and min(M, q) of the quarterly bucket, a and q counting the eligible
\* filings with a valid date; every selected filing of a bucket is at least
\* as recent as every eligible filing of that bucket left out; and nothing
\* of another form type is returned.
C2_SelectCapsPerBucket ==
    selPc # "idle" =>
        /\ BucketExact(AnnualPositions, lookback_10k)
        /\ BucketExact(QuarterlyPositions, lookback_10q)
        /\ \A k \in 1..Len(selected) :
              \E i \in AnnualPositions \cup QuarterlyPositions :
                  selected[k] = row_at(i)
        /\ Len(selected) = Min(lookback_10k, Cardinality(AnnualPositions))
                           + Min(lookback_10q, Cardinality(QuarterlyPositions))

\* C2 witness: the annual cap cuts (more eligible annual filings than N >= 1)
\* while a quarterly filing is returned beside the annual one.
C2_Witness ==
    /\ selPc = "called"
    /\ lookback_10k >= 1
    /\ Cardinality(AnnualPositions) > lookback_10k
    /\ \E k \in 1..Len(selected) : startswith_10Q(selected[k].form)
    /\ \E k \in 1..Len(selected) : startswith_10K(selected[k].form)

IsAmendment(form) == upper_strip(form) \in {"10-K/A", "10-Q/A"}

\* Eligible filings of the bucket of position i that the sort does not put
\* behind position i.
AheadOf(i, P) == {j \in P \ {i} : ~key_lt(row_at(j), row_at(i))}

\* C3: with includeAmendments false no amendment variant is returned; with
\* includeAmendments true an amendment variant with a valid date is returned
\* whenever its bucket's cap leaves room for it.
C3_AmendmentGating ==
    selPc # "idle" =>
        /\ ~include_amendments =>
              \A k \in 1..Len(selected) : ~IsAmendment(selected[k].form)
        /\ include_amendments =>
              \A i \in 1..Len(submissions) :
                  LET P == IF startswith_10K(submissions[i].form)
                           THEN AnnualPositions ELSE QuarterlyPositions
                      cap == IF startswith_10K(submissions[i].form)
                             THEN lookback_10k ELSE lookback_10q
                  IN (/\ IsAmendment(submissions[i].form)
                      /\ i \in EligiblePositions
                      /\ Cardinality(AheadOf(i, P)) < cap)
                     => \E k \in 1..Len(selected) : selected[k] = row_at(i)

\* C3 witness: amendments included, and an amendment is returned next to
\* the base form of its bucket.
C3_Witness ==
    /\ selPc = "called"
    /\ include_amendments
    /\ \E k \in 1..Len(selected) : selected[k].form = "10-K/A"
    /\ \E k \in 1..Len(selected) : selected[k].form = "10-K"

-----------------------------------------------------------------------------
(* Properties of the pipeline.                                             *)

RawRows(cik, accession_number) ==
    {a \in Ids(sec_artifacts) :
        /\ sec_artifacts[a].artifact_kind = "RAW_FILING"
        /\ sec_artifacts[a].cik = cik
        /\ sec_artifacts[a].accession_number = accession_number}

ParsedRows(parent, version) ==
    {a \in Ids(sec_artifacts) :
        /\ sec_artifacts[a].artifact_kind = "PARSED_TEXT"
        /\ sec_artifacts[a].parent_artifact_id = parent
        /\ sec_artifacts[a].parser_version = version}

JobsOf(key) == {j \in Ids(sec_parse_jobs) : sec_parse_jobs[j].idempotency_key = key}

\* Run r takes its step out of the program point pc (it does not stop there).
Leaves(r, pc) == ing[r].pc = pc /\ ing'[r].pc \notin {pc, "idle"}

\* C4: in every reachable state, whatever the number, order and interleaving
\* of ingest runs, at most one RAW_FILING artifact exists per (cik,
\* accession number).
C4_OneRawPerFiling ==
    \A acc \in Accessions : Cardinality(RawRows(Cik, acc)) <= 1

\* C4 witness: two concurrent runs both went through the insert of the same
\* filing; each counted it as created and both hold the one row.
C4_Witness ==
    /\ ing["r1"].artifact_ids # <<>>
    /\ ing["r1"].artifact_ids = ing["r2"].artifact_ids
    /\ ing["r1"].created_raw_count = 1
    /\ ing["r2"].created_raw_count = 1

\* C5: when register_raw_artifact is called right after a call for the same
\* (cik, accession number) with the same bytes, exactly one RAW_FILING row
\* of the filing is stored, the second call returns the identifier the first
\* returned, and the second call does not report the artifact as created.
C5_RegisterTwiceSameBytes ==
    (last_reg.valid /\ last_reg.repeat) =>
        /\ Cardinality(RawRows(Cik, last_reg.accession_number)) = 1
        /\ last_reg.id = last_reg.before
        /\ last_reg.id \in RawRows(Cik, last_reg.accession_number)
        /\ ~last_reg.created

\* C5 witness: a second call with the same bytes has returned, and the row
\* holds those bytes' hash.
C5_Witness ==
    /\ last_reg.valid
    /\ last_reg.repeat
    /\ sec_artifacts[last_reg.id].content_hash = last_reg.content_hash

UniqueJobPerKey ==
    \A j \in Ids(sec_parse_jobs) : \A k \in Ids(sec_parse_jobs) :
        sec_parse_jobs[j].idempotency_key = sec_parse_jobs[k].idempotency_key
            => j = k

\* One call of create_parse_job_if_needed by run r returns: the table is as
\* it was, or has one more job, QUEUED; and one job has the call's key.
CreateJobReturns(r) ==
    LET key == idem_key(ing[r].art, ing[r].parser_version) IN
    (ing[r].pc \in {"job", "jobinsert"}
        /\ ing'[r].pc \notin {"job", "jobinsert", "idle"})
        => /\ \/ sec_parse_jobs' = sec_parse_jobs
              \/ /\ JobsOf(key) = {}
                 /\ sec_parse_jobs' =
                       Append(sec_parse_jobs,
                              new_parse_job(ing[r].art, ing[r].parser_version))
                 /\ sec_parse_jobs'[Len(sec_parse_jobs')].status = "QUEUED"
           /\ Cardinality({j \in Ids(sec_parse_jobs') :
                              sec_parse_jobs'[j].idempotency_key = key}) = 1

\* C6: in every reachable state there is at most one parse job per
\* (artifact id, parser version), whatever the interleaving of ingest runs;
\* a call of create_parse_job_if_needed inserts a job only when none has the
\* key, inserts it QUEUED, otherwise leaves the table as it is, and either
\* way exactly one job has the key afterwards.
C6_OneJobPerKey ==
    /\ []UniqueJobPerKey
    /\ [][\A r \in Runners : CreateJobReturns(r)]_vars

\* C6 witness: a run found the job another run had created (it created none
\* itself), and the one job is QUEUED.
C6_Witness ==
    \E r \in Runners :
        /\ ing[r].pc = "ret"
        /\ ing[r].artifact_ids # <<>>
        /\ ing[r].created_parse_job_count = 0
        /\ Len(sec_parse_jobs) = 1
        /\ sec_parse_jobs[1].status = "QUEUED"

\* A step of run r writes no artifact row and no parse-job row, and when it
\* is the run's last the counts are 0 and the ids those of the run before.
WritesNothing(r) ==
    /\ (\E pc \in {"register", "insert", "job", "jobinsert"} : Leaves(r, pc))
          => /\ sec_artifacts' = sec_artifacts
             /\ sec_parse_jobs' = sec_parse_jobs
    /\ (ing[r].pc # "ret" /\ ing'[r].pc = "ret")
          => /\ ing'[r].created_raw_count = 0
             /\ ing'[r].created_parse_job_count = 0
             /\ ing'[r].artifact_ids = ing[r].base.artifact_ids

\* C7 as stated: a run that follows a completed run, with the index and the
\* document contents unchanged since, writes nothing, returns both counts 0
\* and the artifact ids of the run before.
C7_RerunWritesNothing_AsStated ==
    [][\A r \in Runners : ing[r].base.valid => WritesNothing(r)]_vars

\* C7: a run that follows a completed run, with the index and the document
\* contents unchanged since that run began, with the parser version of that
\* run, and with neither run overlapping another ingest run, writes no
\* artifact row and no parse-job row, returns both counts 0 and the artifact
\* ids of the run before.
C7_RerunWritesNothing ==
    [][\A r \in Runners :
          (/\ ing[r].base.valid
           /\ ing[r].base.solo
           /\ ing[r].solo
           /\ ing[r].base.parser_version = ing[r].parser_version)
          => WritesNothing(r)]_vars

\* C7 witness: such a second run has returned, with the filing's artifact.
C7_Witness ==
    \E r \in Runners :
        /\ ing[r].pc = "ret"
        /\ ing[r].base.valid
        /\ ing[r].base.solo
        /\ ing[r].solo
        /\ ing[r].base.parser_version = ing[r].parser_version
        /\ ing[r].artifact_ids # <<>>
        /\ ing[r].created_raw_count = 0

\* The lookup of run r finds the filing's row with another content hash:
\* the row keeps its id and takes the new hash and path, every other row
\* and column stays, no row is added, and the call reports no creation.
UpdatesInPlace(r) ==
    LET acc == CurrentFiling(r).accession_number
        existing == find_raw(sec_artifacts, Cik, acc)
    IN (/\ Leaves(r, "register")
        /\ existing # 0
        /\ sec_artifacts[existing].content_hash # ing[r].content_hash)
       => /\ Len(sec_artifacts') = Len(sec_artifacts)
          /\ sec_artifacts' =
                [sec_artifacts EXCEPT
                    ![existing].content_hash = ing[r].content_hash,
                    ![existing].storage_path = _artifact_storage_path(Cik, acc)]
          /\ ing'[r].art = existing
          /\ ~ing'[r].is_new
          /\ ing'[r].created_raw_count = ing[r].created_raw_count

\* C8: when register_raw_artifact finds the filing's RAW_FILING row with a
\* content hash other than that of the bytes fetched, it updates that row in
\* place (same id, new content hash and storage path) and inserts no row.
C8_HashMismatchUpdatesInPlace ==
    [][\A r \in Runners : UpdatesInPlace(r)]_vars

\* C8 witness: a call has updated the row, which now holds the revised
\* bytes' hash, and the table still has the one RAW_FILING row.
C8_Witness ==
    /\ last_reg.valid
    /\ last_reg.updated
    /\ last_reg.content_hash = "h2"
    /\ sec_artifacts[last_reg.id].content_hash = "h2"
    /\ Cardinality(RawRows(Cik, last_reg.accession_number)) = 1

\* C9: in every reachable state, whatever the interleaving of parse tasks
\* (two workers on one job included), at most one PARSED_TEXT artifact
\* exists per (RAW_FILING artifact, parser version).
C9_OneParsedPerRawAndVersion ==
    \A a \in Ids(sec_artifacts) : \A v \in ParserVersions :
        Cardinality(ParsedRows(a, v)) <= 1

\* C9 witness: two workers ran one job at once; the first stored the text,
\* the insert of the second, of the same parser version, was refused.
C9_Witness ==
    \E w \in Workers :
        /\ wk[w].pc = "except"
        /\ wk[w].error = "IntegrityError"
        /\ ParsedRows(sec_parse_jobs[wk[w].parse_job_id].artifact_id,
                      wk[w].parser_version) # {}

\* The parse task of worker w stores its text while the RAW artifact has a
\* PARSED_TEXT row of another parser version.
ParsesUnderNewVersion(w) ==
    LET raw == sec_parse_jobs[wk[w].parse_job_id].artifact_id IN
    /\ wk[w].pc = "parse"
    /\ wk'[w].pc # "parse"
    /\ wk'[w].error # "OSError"
    /\ ParsedRows(raw, wk[w].parser_version) = {}
    /\ \E v \in ParserVersions \ {wk[w].parser_version} : ParsedRows(raw, v) # {}

\* C10 as stated: when a RAW artifact with a PARSED_TEXT artifact of the old
\* parser version is parsed under the new version, a PARSED_TEXT artifact of
\* the new version is added, the rows stored before stay as they are, and
\* the task goes on to set the job DONE.
C10_NewVersionNewParsed_AsStated ==
    [][\A w \in Workers :
          ParsesUnderNewVersion(w) =>
              /\ sec_artifacts' =
                    Append(sec_artifacts,
                           parsed_artifact(sec_artifacts,
                                           sec_parse_jobs[wk[w].parse_job_id].artifact_id,
                                           wk[w].parser_version))
              /\ wk'[w].pc = "done"]_vars

-----------------------------------------------------------------------------
(* Properties of the parse-job life cycle.                                 *)

\* The status changes the life cycle names.
LifeCycle ==
    {<<"QUEUED", "RUNNING">>, <<"RUNNING", "DONE">>, <<"RUNNING", "FAILED">>,
     <<"RUNNING", "DEADLETTER">>, <<"FAILED", "QUEUED">>}

\* C11 as stated: a parse job is created QUEUED, and every change of its
\* status is QUEUED to RUNNING, RUNNING to DONE, RUNNING to FAILED, RUNNING
\* to DEADLETTER or FAILED to QUEUED.
C11_StatusTransitions_AsStated ==
    [][/\ \A j \in Ids(sec_parse_jobs) :
            \/ sec_parse_jobs'[j].status = sec_parse_jobs[j].status
            \/ <<sec_parse_jobs[j].status, sec_parse_jobs'[j].status>> \in LifeCycle
       /\ \A j \in Ids(sec_parse_jobs') \ Ids(sec_parse_jobs) :
            sec_parse_jobs'[j].status = "QUEUED"]_vars

\* C12 as stated: a job whose status is DEADLETTER keeps that status in
\* every later state.
C12_DeadletterTerminal_AsStated ==
    [][\A j \in Ids(sec_parse_jobs) :
          sec_parse_jobs[j].status = "DEADLETTER"
              => sec_parse_jobs'[j].status = "DEADLETTER"]_vars

\* C13 as stated: a job whose status is DONE keeps that status in every
\* later state, whatever the workers that claimed it go on to do.
C13_DoneTerminal_AsStated ==
    [][\A j \in Ids(sec_parse_jobs) :
          sec_parse_jobs[j].status = "DONE"
              => sec_parse_jobs'[j].status = "DONE"]_vars

\* The task of worker w claims its job.
Claims(w) == wk[w].pc = "claim" /\ wk'[w].pc = "check"

\* The except clause of the task of worker w commits.
HandlesError(w) == wk[w].pc = "except" /\ wk'[w].pc = "idle"

C15_AttemptsBounded_AsStated ==
    \A j \in Ids(sec_parse_jobs) :
        sec_parse_jobs[j].attempt_count <= sec_parse_jobs[j].max_attempts

\* The task of worker w runs its idempotent check while a PARSED_TEXT row of
\* its job's RAW artifact and of its parser version is stored.
ChecksWithParsedStored(w) ==
    /\ wk[w].pc = "check"
    /\ wk'[w].pc # "check"
    /\ ParsedRows(sec_parse_jobs[wk[w].parse_job_id].artifact_id,
                  wk[w].parser_version) # {}

\* C16: when a PARSED_TEXT artifact of the job's RAW artifact and of the
\* current parser version is stored, the parse task sets the job DONE and
\* returns, and no artifact row is added, replaced or modified.
C16_ShortCircuitToDone ==
    [][\A w \in Workers :
          ChecksWithParsedStored(w) =>
              /\ sec_parse_jobs'[wk[w].parse_job_id].status = "DONE"
              /\ sec_artifacts' = sec_artifacts
              /\ wk'[w].pc = "idle"]_vars

\* C16 witness: one worker has stored the text and not yet set the job
\* DONE, and the job is DONE: the other worker's check found the text.
C16_Witness ==
    \E w \in Workers :
        /\ wk[w].pc = "done"
        /\ sec_parse_jobs[wk[w].parse_job_id].status = "DONE"
        /\ ParsedRows(sec_parse_jobs[wk[w].parse_job_id].artifact_id,
                      wk[w].parser_version) # {}

\* C17: the requeue sets every FAILED job to QUEUED with locked_by,
\* locked_at and last_error cleared; it leaves the attempt count, the
\* max_attempts and the idempotency key of each such job, every DONE or
\* RUNNING job, and every artifact as they are.
C17_RequeueFrame ==
    [][Requeue =>
          /\ Len(sec_parse_jobs') = Len(sec_parse_jobs)
          /\ sec_artifacts' = sec_artifacts
          /\ \A j \in Ids(sec_parse_jobs) :
                /\ sec_parse_jobs[j].status = "FAILED" =>
                      sec_parse_jobs'[j] =
                          [sec_parse_jobs[j] EXCEPT !.status = "QUEUED",
                                                    !.locked_by = "none",
                                                    !.locked_at = FALSE,
                                                    !.last_error = "none"]
                /\ sec_parse_jobs[j].status \in {"DONE", "RUNNING"} =>
                      sec_parse_jobs'[j] = sec_parse_jobs[j]]_vars

\* C17 witness: a job that was run once and failed is QUEUED again, unlocked
\* and without error, its one attempt still counted.
C17_Witness ==
    \E j \in Ids(sec_parse_jobs) :
        /\ sec_parse_jobs[j].status = "QUEUED"
        /\ sec_parse_jobs[j].attempt_count = 1
        /\ sec_parse_jobs[j].locked_by = "none"
        /\ ~sec_parse_jobs[j].locked_at
        /\ sec_parse_jobs[j].last_error = "none"

\* C18: a parse task goes on to claim a job only if the job's locked_by and
\* locked_at were not both set when the task checked them, only the claim
\* of such a task moves a job to RUNNING, and a task invoked on a job whose
\* locked_by and locked_at are set changes neither the job nor an artifact.
C18_ClaimOnlyUnlocked ==
    [][/\ \A w \in Workers :
            (wk[w].pc = "idle" /\ wk'[w].pc # "idle") =>
                /\ wk'[w].pc = "claim"
                /\ \/ sec_parse_jobs[wk'[w].parse_job_id].locked_by = "none"
                   \/ ~sec_parse_jobs[wk'[w].parse_job_id].locked_at
                /\ sec_parse_jobs' = sec_parse_jobs
                /\ sec_artifacts' = sec_artifacts
       /\ \A j \in Ids(sec_parse_jobs) :
            (sec_parse_jobs[j].status # "RUNNING"
                /\ sec_parse_jobs'[j].status = "RUNNING")
            => \E w \in Workers : Claims(w) /\ wk[w].parse_job_id = j]_vars

\* C18 witness: a job is FAILED with the lock of its last run still set, no
\* worker is busy and a task can still be delivered: the task delivered now
\* finds the lock and returns.
C18_Witness ==
    /\ \A w \in Workers : wk[w].pc = "idle"
    /\ parse_tasks < MaxParseTasks
    /\ \E j \in Ids(sec_parse_jobs) :
          /\ sec_parse_jobs[j].status = "FAILED"
          /\ sec_parse_jobs[j].locked_by # "none"
          /\ sec_parse_jobs[j].locked_at

-----------------------------------------------------------------------------
(* Properties of an ingest run over several filings.                       *)

\* The download of run r fails: the run leaves the filing without bytes.
DownloadFailed(r) ==
    /\ ing[r].pc = "download"
    /\ ing'[r].content_hash = "none"
    /\ ing'[r].pc # "download" \/ ing'[r].i # ing[r].i

\* C19 as stated: when the download of one selected filing fails, the run
\* is not aborted: it keeps what it has registered and goes on to the next
\* selected filing, or returns when the filing was the last.
C19_FailureDoesNotAbort_AsStated ==
    [][\A r \in Runners :
          DownloadFailed(r) =>
              /\ ing'[r].selected = ing[r].selected
              /\ ing'[r].artifact_ids = ing[r].artifact_ids
              /\ IF ing[r].i < Len(ing[r].selected)
                 THEN ing'[r].pc = "download" /\ ing'[r].i = ing[r].i + 1
                 ELSE ing'[r].pc = "ret"]_vars

\* C20: when an ingest run completes, whatever runs stopped before it and
\* wherever they stopped, every selected filing has exactly one RAW_FILING
\* artifact, the one the run returns for it, and that artifact has exactly
\* one parse job of the run's parser version.
C20_CompletedRunState ==
    \A r \in Runners :
        ing[r].pc = "ret" =>
            /\ Len(ing[r].artifact_ids) = Len(ing[r].selected)
            /\ \A k \in 1..Len(ing[r].selected) :
                  LET raws == RawRows(Cik, ing[r].selected[k].accession_number)
                      a == ing[r].artifact_ids[k]
                  IN /\ raws = {a}
                     /\ Cardinality(JobsOf(idem_key(a, ing[r].parser_version))) = 1

\* C20 witness: a run that followed a stopped run has completed over both
\* filings, and found part of the writes done: it inserted no artifact and
\* one of the two jobs.
C20_Witness ==
    \E r \in Runners :
        /\ ing[r].pc = "ret"
        /\ ing[r].resumes
        /\ ing[r].solo
        /\ Len(ing[r].selected) = 2
        /\ ing[r].created_raw_count = 0
        /\ ing[r].created_parse_job_count = 1
        /\ Len(sec_parse_jobs) = 2

-----------------------------------------------------------------------------
(* Properties of the resolution of a ticker.                               *)

\* The ticker is absent from the registry's ticker index.
Unlisted == ~\E row \in company_tickers : row.ticker = Ticker

\* The ingest call of slot r ended on the SecEdgarError of the resolution.
FailsToResolve(r) ==
    /\ ing[r].pc = "idle"
    /\ ing'[r] = StoppedIng
    /\ UNCHANGED <<instruments, sec_artifacts, sec_parse_jobs>>

\* C21 as stated: from a state where the ticker is absent from the ticker
\* index, an ingest call never gets past the resolution, whatever the
\* instruments table holds.
C21_UnlistedIngestFails_AsStated ==
    [][Unlisted => \A r \in Runners : ing[r].pc = "idle" => ing'[r].pc = "idle"]_vars

\* C21: while the ticker is absent from the ticker index and no instrument
\* row holds a CIK for it, resolve_cik answers None, an ingest call ends on
\* the registry error without starting a run and without writing an
\* instrument, an artifact or a parse job, and no step gives the ticker an
\* instrument row or a CIK.
C21_UnlistedIngestFails ==
    [][(Unlisted /\ cached_cik(instruments, Ticker) = "none") =>
          /\ resolve_cik(company_tickers, Ticker) = "none"
          /\ instruments' = instruments
          /\ \A r \in Runners :
                ing[r].pc = "idle" =>
                    /\ ing'[r].pc = "idle"
                    /\ ing'[r] # ing[r] => FailsToResolve(r)]_vars

\* An ingest call for the unlisted ticker has failed: nothing was ever
\* started or written, and the ticker still has no CIK.
C21_Witness ==
    /\ Unlisted
    /\ cached_cik(instruments, Ticker) = "none"
    /\ \E r \in Runners : ing[r].stopped
    /\ ingest_runs = 0
    /\ sec_artifacts = <<>>
    /\ sec_parse_jobs = <<>>

-----------------------------------------------------------------------------
(* Properties of the client's retries.                                     *)

\* The last response of the call.
LastResponse == http.responses[Len(http.responses)]

\* The responses C22 names as retried: 429, 403, any 5xx, a network error.
RetriedAsStated(resp) ==
    resp.fault = "network" \/ resp.status \in ({429, 403} \cup 500..599)

\* C22 as stated: a call makes at most retry_max requests; a call that
\* raised after a 429, a 403, any 5xx or a network error had made all its
\* retry_max requests; a call that raised after any other status outside
\* 2xx had made the one request.
C22_RetryPolicy_AsStated ==
    /\ Len(http.responses) <= http.retry_max
    /\ http.pc = "raised" =>
          /\ RetriedAsStated(LastResponse) => Len(http.responses) = http.retry_max
          /\ (~RetriedAsStated(LastResponse) /\ LastResponse.status \notin 200..299)
                => Len(http.responses) = 1
-----------------------------------------------------------------------------
(* Properties of the fact extractor.                                       *)

\* The whole number a float with no fractional digit stands for.
Amount(value) == value.m * Pow10(value.e)

\* The extraction returned a net_income fact of this amount.
YieldsNetIncome(amount) ==
    \E i \in 1..Len(ex_raw_facts) :
        /\ ex_raw_facts[i].metric_key = "net_income"
        /\ ~ex_raw_facts[i].value_num.null
        /\ ex_raw_facts[i].value_num.e >= 0
        /\ Amount(ex_raw_facts[i].value_num) = amount

\* The numeral and the scale word of the matched text of a fact.
NumeralOf(fact) ==
    CHOOSE n \in Numerals : \E i \in 1..Len(fact.value_raw) : fact.value_raw[i] = n

ScaleOf(fact) ==
    IF fact.value_raw[Len(fact.value_raw)] \in ScaleWords
    THEN scale_map(fact.value_raw[Len(fact.value_raw)]) ELSE 0

\* The value of a fact is its numeral times its scale word, negative when
\* the matched label is a loss.
ScaledAndSigned(fact) ==
    LET numeral == _parse_numeric(chars(NumeralOf(fact)))
    IN IF numeral.null THEN fact.value_num.null
       ELSE /\ ~fact.value_num.null
            /\ fact.value_num.e = numeral.e + ScaleOf(fact)
            /\ fact.value_num.m =
                   IF fact.value_raw[1] = "net loss" THEN -numeral.m ELSE numeral.m

\* C23 as stated: every extracted value is the captured numeral times its
\* scale word, negated for a loss; "net income was $1.2 million" yields a
\* net_income fact of 1,200,000 and "net loss of $3 million" yields a
\* net_income fact of -3,000,000.
C23_ScaleNormalization_AsStated ==
    exPc \in {"extracted", "selected"} =>
        /\ \A i \in 1..Len(ex_raw_facts) : ScaledAndSigned(ex_raw_facts[i])
        /\ ex_text = <<"net income", "was", "$", "1.2", "million">>
              => YieldsNetIncome(1200000)
        /\ ex_text = <<"net loss", "of", "$", "3", "million">>
              => YieldsNetIncome(-3000000)

\* The scale normalization without the text "net loss of $3 million".
ScaleNormalizationElsewhere ==
    exPc \in {"extracted", "selected"} =>
        /\ \A i \in 1..Len(ex_raw_facts) : ScaledAndSigned(ex_raw_facts[i])
        /\ ex_text = <<"net income", "was", "$", "1.2", "million">>
              => YieldsNetIncome(1200000)
        /\ ex_text = <<"net loss", "was", "$", "3", "million">>
              => YieldsNetIncome(-3000000)

-----------------------------------------------------------------------------
(* Properties of _select_best_facts.                                       *)

\* abs(value) in tenths, for the floats of FactPool.
Tenths(value) == Abs(value.m) * Pow10(value.e + 1)

\* The positions of the list that hold a fact of this key.
WithKey(list, key) == {i \in 1..Len(list) : fact_key(list[i]) = key}

\* C28: _select_best_facts returns exactly one fact per (metric key,
\* period label) of its input, a fact of the input; if any fact of the key
\* has a numeric value the one kept has one, and no fact of the key has a
\* larger absolute value than the one kept.
C28_OneBestFactPerKey ==
    exPc = "selected" =>
        /\ \A i \in 1..Len(ex_raw_facts) :
              Cardinality(WithKey(ex_facts, fact_key(ex_raw_facts[i]))) = 1
        /\ \A k \in 1..Len(ex_facts) :
              /\ \E i \in 1..Len(ex_raw_facts) : ex_raw_facts[i] = ex_facts[k]
              /\ \A i \in WithKey(ex_raw_facts, fact_key(ex_facts[k])) :
                    ~ex_raw_facts[i].value_num.null =>
                        /\ ~ex_facts[k].value_num.null
                        /\ Tenths(ex_raw_facts[i].value_num)
                              <= Tenths(ex_facts[k].value_num)

\* Three facts of two keys went in; the fact kept for the first key is the
\* third of the input, larger than the first.
C28_Witness ==
    /\ exPc = "selected"
    /\ Len(ex_raw_facts) = 3
    /\ Len(ex_facts) = 2
    /\ ex_facts[1] = ex_raw_facts[3]
    /\ ~ex_raw_facts[1].value_num.null
    /\ Tenths(ex_raw_facts[1].value_num) < Tenths(ex_raw_facts[3].value_num)
-----------------------------------------------------------------------------
(* Properties of the extraction tasks and of the change detection.         *)

\* The changes of a snapshot, the alerts of a change, the facts of a
\* snapshot.
ChangesOf(s) ==
    {c \in Ids(sec_fundamentals_change) :
        sec_fundamentals_change[c].curr_snapshot_id = s}

AlertsOf(c) ==
    {a \in Ids(sec_fundamentals_alert) : sec_fundamentals_alert[a].change_id = c}

FactsOf(s) ==
    {f \in Ids(sec_fundamentals_fact) : sec_fundamentals_fact[f].snapshot_id = s}

\* The four tables of the fundamentals are left as they are.
FundamentalsUnchanged ==
    UNCHANGED <<sec_fundamentals_snapshot, sec_fundamentals_fact,
                sec_fundamentals_change, sec_fundamentals_alert>>

\* C24: a compute_changes_and_alerts on a snapshot on which the last
\* returned call was made, with no row written by anyone else since that
\* call made its queries, returns without raising and leaves the Change
\* rows and the Alert rows as they are.
C24_ComputeTwiceWritesNothing ==
    [][\A p \in Processors :
          (px[p].again /\ px'[p] # px[p]) =>
              /\ UNCHANGED <<sec_fundamentals_change, sec_fundamentals_alert>>
              /\ px'[p].status # "IntegrityError"]_vars

\* The second call on a snapshot that has changes has returned.
C24_Witness ==
    \E p \in Processors :
        /\ px[p].again
        /\ px[p].direct
        /\ px[p].pc = "ret"
        /\ ChangesOf(px[p].snapshot_id) # {}
        /\ sec_fundamentals_alert # <<>>

\* high above medium above low above info.
Above(severity) ==
    CASE severity = "high" -> {"medium", "low", "info"}
      [] severity = "medium" -> {"low", "info"}
      [] severity = "low" -> {"info"}
      [] severity = "info" -> {}

\* The rules, by their position, that match a change.
Matching(c) ==
    {i \in 1..Len(rules) : rule_matches(rules[i], sec_fundamentals_change[c])}

\* C25: for each Change of a snapshot whose change detection ran to its
\* end, every matching rule has exactly one open Alert of its severity
\* referencing the Change and there is no other Alert of the Change; the
\* Change carries the severity and the id of a matching rule that no
\* matching rule is above; matched by no rule it keeps severity info, no
\* rule and no Alert.
C25_SeverityResolution ==
    \A s \in last_cmp.computed : \A c \in ChangesOf(s) :
        /\ \A i \in Matching(c) :
              Cardinality({a \in AlertsOf(c) :
                  /\ sec_fundamentals_alert[a].rule_id = rules[i].id
                  /\ sec_fundamentals_alert[a].severity = rules[i].severity
                  /\ sec_fundamentals_alert[a].status = "open"}) = 1
        /\ Cardinality(AlertsOf(c)) = Cardinality(Matching(c))
        /\ IF Matching(c) = {}
           THEN /\ sec_fundamentals_change[c].severity = "info"
                /\ sec_fundamentals_change[c].rule_id = "none"
           ELSE \E i \in Matching(c) :
                  /\ sec_fundamentals_change[c].rule_id = rules[i].id
                  /\ sec_fundamentals_change[c].severity = rules[i].severity
                  /\ \A j \in Matching(c) :
                        rules[i].severity \notin Above(rules[j].severity)

\* A Change matched by a medium, a high and a low rule is recorded high and
\* has its three Alerts.
C25_Witness ==
    \E s \in last_cmp.computed : \E c \in ChangesOf(s) :
        /\ Cardinality(Matching(c)) = 3
        /\ Cardinality(AlertsOf(c)) = 3
        /\ sec_fundamentals_change[c].severity = "high"
        /\ rules[1].severity = "medium"

\* No artifact has two snapshots.
OneSnapshotPerArtifact ==
    \A s, t \in Ids(sec_fundamentals_snapshot) :
        sec_fundamentals_snapshot[s].artifact_id
            = sec_fundamentals_snapshot[t].artifact_id => s = t

\* A task that starts either goes on, for an artifact without a snapshot,
\* or is skipped and leaves the four tables as they are.
StartsOrSkips ==
    extract_tasks' # extract_tasks =>
        \A p \in Processors :
            px'[p] # px[p] =>
                IF px'[p].pc = "snapshot"
                THEN existing_snapshot(sec_fundamentals_snapshot,
                                       px'[p].artifact_id) = 0
                ELSE px'[p].status = "skipped" /\ FundamentalsUnchanged

\* C26: at most one FactSnapshot exists per parsed artifact in every
\* state, and process_parsed_sec_artifact called on an artifact that has a
\* FactSnapshot is skipped: it adds or changes no snapshot, fact, change
\* or alert row.
C26_OneSnapshotPerArtifact ==
    []OneSnapshotPerArtifact /\ [][StartsOrSkips]_vars

\* A task was skipped for an artifact that has its snapshot; the tables
\* hold that one snapshot.
C26_Witness ==
    /\ \E p \in Processors : px[p].status = "skipped"
    /\ Len(sec_fundamentals_snapshot) = 1
    /\ extract_tasks = 2

\* The fact rows a snapshot has are those selected for its document.
HasItsFacts(s) ==
    LET a == sec_fundamentals_snapshot[s].artifact_id
        rows == fact_rows(s, _select_best_facts(parsed_texts[a]))
    IN /\ \A i \in 1..Len(rows) :
             \E f \in FactsOf(s) : sec_fundamentals_fact[f] = rows[i]
       /\ Cardinality(FactsOf(s)) = Len(rows)

\* C27 as stated: a persisted FactSnapshot that no running task is still
\* writing has the complete set of facts selected for its document.
C27_NoPartialSnapshot_AsStated ==
    \A s \in Ids(sec_fundamentals_snapshot) :
        (\A p \in Processors : px[p].snapshot_id # s) => HasItsFacts(s)

\* C29 as stated: the prior snapshot of every Change is another snapshot
\* of the same filer and form type, and not later than the current one by
\* period end, then filing date.
C29_PriorNotLater_AsStated ==
    \A c \in Ids(sec_fundamentals_change) :
        LET curr == sec_fundamentals_snapshot[sec_fundamentals_change[c].curr_snapshot_id]
            prev == sec_fundamentals_snapshot[sec_fundamentals_change[c].prev_snapshot_id]
        IN /\ sec_fundamentals_change[c].prev_snapshot_id
                 # sec_fundamentals_change[c].curr_snapshot_id
           /\ prev.instrument_id = curr.instrument_id
           /\ prev.form_type = curr.form_type
           /\ ~ordered_before(prev, curr)

\* The same without the order of the two snapshots.
PriorOfSameFilerAndForm ==
    \A c \in Ids(sec_fundamentals_change) :
        LET curr == sec_fundamentals_snapshot[sec_fundamentals_change[c].curr_snapshot_id]
            prev == sec_fundamentals_snapshot[sec_fundamentals_change[c].prev_snapshot_id]
        IN /\ sec_fundamentals_change[c].prev_snapshot_id
                 # sec_fundamentals_change[c].curr_snapshot_id
           /\ prev.instrument_id = curr.instrument_id
           /\ prev.form_type = curr.form_type

\* Every other snapshot had the facts of its document before this one got
\* its own: whichever snapshot its change detection took as prior was
\* complete.
ComparedWithComplete(s) ==
    \A t \in Ids(sec_fundamentals_snapshot) \ {s} :
        /\ HasItsFacts(t)
        /\ \A f \in FactsOf(t) : \A g \in FactsOf(s) : f < g

\* The snapshot has a fact of the metric with a value.
FlagSet(s, metric_key) ==
    \E f \in FactsOf(s) :
        /\ sec_fundamentals_fact[f].metric_key = metric_key
        /\ ~sec_fundamentals_fact[f].value_num.null

\* The snapshot has an Alert of the rule.
AlertOfRule(s, rule) ==
    \E a \in Ids(sec_fundamentals_alert) :
        /\ sec_fundamentals_alert[a].curr_snapshot_id = s
        /\ sec_fundamentals_alert[a].rule_id = rule.id

\* C30 as stated: once the change detection of a snapshot ran to its end
\* against a complete prior snapshot, every presence rule whose flag is set
\* in the snapshot has an Alert for the snapshot, whether or not the prior
\* snapshot had the flag.
C30_PresenceRuleAlerts_AsStated ==
    \A s \in last_cmp.computed : \A i \in 1..Len(rules) :
        (/\ ComparedWithComplete(s)
         /\ rules[i].direction = "present"
         /\ FlagSet(s, rules[i].metric_key))
        => AlertOfRule(s, rules[i])

\* The same where the flag is set in every other snapshot of the filer and
\* form type as well.
PresenceRuleAlertsWhenPriorHasFlag ==
    \A s \in last_cmp.computed : \A i \in 1..Len(rules) :
        (/\ ComparedWithComplete(s)
         /\ rules[i].direction = "present"
         /\ FlagSet(s, rules[i].metric_key)
         /\ \A t \in Ids(sec_fundamentals_snapshot) \ {s} :
               (/\ sec_fundamentals_snapshot[t].instrument_id
                      = sec_fundamentals_snapshot[s].instrument_id
                /\ sec_fundamentals_snapshot[t].form_type
                      = sec_fundamentals_snapshot[s].form_type)
               => FlagSet(t, rules[i].metric_key))
        => AlertOfRule(s, rules[i])

\* C31 as stated: no Change has two Alert rows.
C31_OneAlertPerChange_AsStated ==
    \A c \in Ids(sec_fundamentals_change) : Cardinality(AlertsOf(c)) <= 1

\* No Change has two Alert rows of one rule.
OneAlertPerChangeAndRule ==
    \A c \in Ids(sec_fundamentals_change) : \A a, b \in AlertsOf(c) :
        sec_fundamentals_alert[a].rule_id = sec_fundamentals_alert[b].rule_id
            => a = b
-----------------------------------------------------------------------------
(* Properties of the lock, the attempt count and the end of a parse task.  *)

\* The tasks that claimed this job and have not ended.
Executing(j) ==
    {w \in Workers : wk[w].parse_job_id = j
                        /\ wk[w].pc \in {"check", "parse", "done", "except"}}

\* C32: the claim of a task that saw the lock unset is committed whatever
\* lock the job holds by then: the job becomes RUNNING under this task's
\* name and the task goes on to execute it, so two tasks can execute one
\* job at a time.
C32_ClaimNotAtomic ==
    [][\A w \in Workers :
          (wk[w].pc = "claim" /\ wk'[w] # wk[w]) =>
              /\ wk'[w].pc = "check"
              /\ sec_parse_jobs'[wk[w].parse_job_id].status = "RUNNING"
              /\ sec_parse_jobs'[wk[w].parse_job_id].locked_by = w]_vars

\* Two tasks execute the one job, RUNNING, both past their claim.
C32_Witness ==
    \E j \in Ids(sec_parse_jobs) :
        /\ Executing(j) = Workers
        /\ sec_parse_jobs[j].status = "RUNNING"
        /\ sec_parse_jobs[j].attempt_count = 1

\* create_parse_job_if_needed of run r returns for the filing the loop is
\* at.
JobStepReturns(r) ==
    /\ ing[r].pc \in {"job", "jobinsert"}
    /\ ing'[r].pc \notin {"job", "jobinsert", "idle"}

\* C34 as stated: when register_raw_artifact found the filing's row with
\* another content hash and stored the new one, the artifact has a QUEUED
\* parse job once create_parse_job_if_needed has returned.
C34_ChangedArtifactGetsJob_AsStated ==
    [][\A r \in Runners :
          (JobStepReturns(r) /\ ing[r].changed) =>
              \E j \in Ids(sec_parse_jobs') :
                  /\ sec_parse_jobs'[j].artifact_id = ing[r].art
                  /\ sec_parse_jobs'[j].status = "QUEUED"]_vars

\* The same for any artifact, without the status: the artifact has a job
\* of the parser version of the run.
ArtifactHasJobOfVersion ==
    [][\A r \in Runners :
          JobStepReturns(r) =>
              \E j \in Ids(sec_parse_jobs') :
                  /\ sec_parse_jobs'[j].artifact_id = ing[r].art
                  /\ sec_parse_jobs'[j].idempotency_key
                        = <<"parse", ing[r].art, ing[r].parser_version>>]_vars
-----------------------------------------------------------------------------
(* Properties of _normalize_html_to_text.                                  *)

\* A markup tag stands in the text: <, one or more characters, >.
HasTag(text) ==
    \E i, k \in 1..Len(text) :
        /\ text[i] = "<"
        /\ text[k] = ">"
        /\ k >= i + 2
        /\ \A n \in (i + 1)..(k - 1) : text[n] # ">"

\* Every letter of the raw text that is not a tag's name stands between
\* <script> and the next </script>.
LettersInScriptOnly(text) ==
    \A i \in 1..Len(text) :
        (text[i] = "x" /\ (i = 1 \/ text[i - 1] # "<")) =>
            \E a \in 1..(i - 3) : \E b \in (i + 1)..Len(text) :
                /\ SubSeq(text, a, a + 2) = <<"<", "script", ">">>
                /\ b + 3 <= Len(text)
                /\ SubSeq(text, b, b + 3) = <<"<", "/", "script", ">">>
                /\ \A c \in a..(i - 4) :
                      SubSeq(text, c, c + 3) # <<"<", "/", "script", ">">>

\* Two whitespace characters stand side by side.
HasWhitespaceRun(text) ==
    \E i \in 1..(Len(text) - 1) : text[i] = " " /\ text[i + 1] = " "

\* C35 as stated: the output of _normalize_html_to_text has no markup tag,
\* none of the text of a script block, and no run of two whitespace
\* characters.
C35_NormalizedText_AsStated ==
    nzPc = "normalized" =>
        /\ ~HasTag(nz_text)
        /\ LettersInScriptOnly(nz_raw) => \A i \in 1..Len(nz_text) : nz_text[i] # "x"
        /\ ~HasWhitespaceRun(nz_text)

\* The output has no markup tag and no whitespace at either end.
NormalizedTextHasNoTag ==
    nzPc = "normalized" =>
        /\ ~HasTag(nz_text)
        /\ nz_text # <<>> => nz_text[1] # " " /\ nz_text[Len(nz_text)] # " "

\* As stated, without the script blocks.
WhitespaceCollapsed_AsStated ==
    nzPc = "normalized" => ~HasWhitespaceRun(nz_text)

\* As stated, without the whitespace.
ScriptTextRemoved_AsStated ==
    nzPc = "normalized" =>
        (LettersInScriptOnly(nz_raw) => \A i \in 1..Len(nz_text) : nz_text[i] # "x")
-----------------------------------------------------------------------------
(* Properties of the counts an ingest run returns.                         *)

\* Every run that was started has returned and its result is still there.
AllRunsReturned ==
    /\ ingest_runs = Cardinality(Runners)
    /\ \A r \in Runners : ing[r].pc = "ret"

\* The RAW_FILING rows stored.
RawFilingRows ==
    {a \in Ids(sec_artifacts) : sec_artifacts[a].artifact_kind = "RAW_FILING"}

\* C36 as stated: the created_raw_count and created_parse_job_count of
\* the runs add up to the RAW_FILING rows and the parse-job rows stored.
C36_CountsEqualRows_AsStated ==
    AllRunsReturned =>
        /\ ing["r1"].created_raw_count + ing["r2"].created_raw_count
              = Cardinality(RawFilingRows)
        /\ ing["r1"].created_parse_job_count + ing["r2"].created_parse_job_count
              = Len(sec_parse_jobs)

\* The counts of the runs are not below the rows stored.
CountsCoverRows ==
    AllRunsReturned =>
        /\ ing["r1"].created_raw_count + ing["r2"].created_raw_count
              >= Cardinality(RawFilingRows)
        /\ ing["r1"].created_parse_job_count + ing["r2"].created_parse_job_count
              >= Len(sec_parse_jobs)
-----------------------------------------------------------------------------
(* Properties of the attempt count, the lock and the end of a parse task.  *)

\* C38 as stated: every claim of a job adds exactly one to the
\* attempt_count the job holds, and no step lowers it.
C38_AttemptCountCountsClaims_AsStated ==
    [][/\ \A w \in Workers :
             Claims(w) =>
                 sec_parse_jobs'[wk[w].parse_job_id].attempt_count
                     = sec_parse_jobs[wk[w].parse_job_id].attempt_count + 1
       /\ \A j \in Ids(sec_parse_jobs) :
             sec_parse_jobs'[j].attempt_count >= sec_parse_jobs[j].attempt_count]_vars

\* No step that is not a claim changes an attempt_count.
OnlyClaimsChangeAttemptCount ==
    [][\A j \in Ids(sec_parse_jobs) :
          sec_parse_jobs'[j].attempt_count # sec_parse_jobs[j].attempt_count
              => \E w \in Workers : Claims(w) /\ wk[w].parse_job_id = j]_vars

\* The PARSED_TEXT rows whose parent is this artifact, of any parser
\* version.
ParsedOf(artifact_id) ==
    {a \in Ids(sec_artifacts) :
        /\ sec_artifacts[a].artifact_kind = "PARSED_TEXT"
        /\ sec_artifacts[a].parent_artifact_id = artifact_id}

\* C39: every parse job with status DONE has a PARSED_TEXT artifact whose
\* parent is the RAW_FILING artifact of the job.
C39_DoneHasParsed ==
    \A j \in Ids(sec_parse_jobs) :
        sec_parse_jobs[j].status = "DONE"
            => /\ sec_parse_jobs[j].artifact_id \in Ids(sec_artifacts)
               /\ sec_artifacts[sec_parse_jobs[j].artifact_id].artifact_kind
                     = "RAW_FILING"
               /\ ParsedOf(sec_parse_jobs[j].artifact_id) # {}

\* Two jobs of one artifact, of two parser versions, are DONE: one by its
\* parse, the other by the check for an existing parsed artifact.
C39_Witness ==
    /\ Len(sec_parse_jobs) = 2
    /\ \A j \in Ids(sec_parse_jobs) : sec_parse_jobs[j].status = "DONE"
    /\ Cardinality(ParsedOf(1)) = 1

\* Task w ends: its last commit is made and it returns or raises.
Ends(w) ==
    /\ wk[w].pc \in {"check", "done", "except"}
    /\ wk'[w].pc = "idle"

\* A RUNNING job has a task that claimed it and has not ended.
RunningOnlyInProgress ==
    \A j \in Ids(sec_parse_jobs) :
        sec_parse_jobs[j].status = "RUNNING" => Executing(j) # {}

LockSet(j) ==
    /\ sec_parse_jobs[j].locked_by \in Workers
    /\ sec_parse_jobs[j].locked_at = TRUE

\* A task goes past the lock test of job j in this step.
Starts(w, j) ==
    /\ wk[w].pc = "idle"
    /\ wk'[w].pc = "claim"
    /\ wk'[w].parse_job_id = j

\* C37: the step that ends a task leaves the job's lock columns as they
\* are; a lock is cleared by a requeue only; and no task goes past the lock
\* test of a job whose lock is set, so a FAILED job left locked by its run
\* is not run again before a requeue.
C37_LockKeptUntilRequeue ==
    [][/\ \A w \in Workers :
            Ends(w) =>
                LET j == wk[w].parse_job_id IN
                /\ sec_parse_jobs'[j].locked_by = sec_parse_jobs[j].locked_by
                /\ sec_parse_jobs'[j].locked_at = sec_parse_jobs[j].locked_at
       /\ \A j \in Ids(sec_parse_jobs) :
            LockSet(j) =>
                /\ \A w \in Workers : ~Starts(w, j)
                /\ \/ sec_parse_jobs'[j].locked_by \in Workers
                      /\ sec_parse_jobs'[j].locked_at = TRUE
                   \/ /\ sec_parse_jobs[j].status \in {"QUEUED", "FAILED", "DEADLETTER"}
                      /\ sec_parse_jobs'[j].status = "QUEUED"
                      /\ wk' = wk]_vars

\* A run failed and ended: the job is FAILED with its lock still set, no
\* task is in progress and another task could still be delivered.
C37_Witness ==
    /\ \A w \in Workers : wk[w].pc = "idle"
    /\ parse_tasks < MaxParseTasks
    /\ \E j \in Ids(sec_parse_jobs) :
          /\ sec_parse_jobs[j].status = "FAILED"
          /\ LockSet(j)

\* The tasks that loaded job j and have not ended.
InProgress(j) ==
    {w \in Workers : wk[w].pc # "idle" /\ wk[w].parse_job_id = j}

\* Job j is RUNNING with its lock set and no task of it is alive: the
\* worker that held the lock died mid-run.
Abandoned(j) ==
    /\ sec_parse_jobs[j].status = "RUNNING"
    /\ LockSet(j)
    /\ InProgress(j) = {}

\* C33 as stated: a job whose lock holder died mid-run can be claimed by
\* a later task: a task delivered for it goes past the lock test.
C33_AbandonedJobReclaimed_AsStated ==
    \A j \in Ids(sec_parse_jobs) :
        (Abandoned(j) /\ parse_tasks < MaxParseTasks)
            => \E w \in Workers : ENABLED WorkerLoad(w, j)

\* What the code does: an abandoned job stays RUNNING and locked for ever.
AbandonedJobStaysLocked ==
    [][\A j \in Ids(sec_parse_jobs) : Abandoned(j) => Abandoned(j)']_vars
====
